---------------------------- MODULE Spec2Model ----------------------------
(***************************************************************************)
(* A model of regolith's date tools (regolith/dates.py) and record filters *)
(* (regolith/tools.py).                                                    *)
(*                                                                         *)
(* Python values are modelled as follows.                                  *)
(*   - a str is a sequence of one-character strings, so that lower(),      *)
(*     concatenation, the substring test and parsing are computed;         *)
(*   - a value whose Python type varies (a month: int or str) is a record  *)
(*     [int |-> k] or [str |-> s];                                         *)
(*   - a dict (a document) is a function whose DOMAIN is the set of keys   *)
(*     present; a list is a sequence;                                      *)
(*   - a call returns [ok |-> value], or [raise |-> exception name] when   *)
(*     it raises, or [exit |-> ...] when it ends the process.              *)
(***************************************************************************)
EXTENDS Integers, Sequences, FiniteSets, TLC

VARIABLES
    pc,      \* "call": the inputs are loaded; else the function that returned
    args,    \* the scalar arguments of the call (a document for dates.py)
    people,  \* the caller's people collection (a list of documents)
    coll,    \* the caller's record collection(s) handed to the call
    ret      \* what the last call returned or raised

vars == <<pc, args, people, coll, ret>>

-----------------------------------------------------------------------------
(* Python built-ins                                                        *)

EmptyDoc == [k \in {} |-> 0]

NoRet == [none |-> TRUE]

Ok(v) == [ok |-> v]

Raise(e) == [raise |-> e]

IsOk(r) == "ok" \in DOMAIN r

IsRaise(r) == "raise" \in DOMAIN r

PInt(k) == [int |-> k]

PStr(s) == [str |-> s]

IsPStr(v) == "str" \in DOMAIN v

IsPInt(v) == "int" \in DOMAIN v

\* dict.get(k, default)
Get(doc, k, default) == IF k \in DOMAIN doc THEN doc[k] ELSE default

Has(doc, k) == k \in DOMAIN doc

\* dict item assignment doc[k] = v
Put(doc, k, v) == [x \in (DOMAIN doc) \cup {k} |-> IF x = k THEN v ELSE doc[x]]

UpperToLower ==
    ("A" :> "a") @@ ("B" :> "b") @@ ("C" :> "c") @@ ("D" :> "d") @@
    ("E" :> "e") @@ ("F" :> "f") @@ ("G" :> "g") @@ ("H" :> "h") @@
    ("I" :> "i") @@ ("J" :> "j") @@ ("K" :> "k") @@ ("L" :> "l") @@
    ("M" :> "m") @@ ("N" :> "n") @@ ("O" :> "o") @@ ("P" :> "p") @@
    ("Q" :> "q") @@ ("R" :> "r") @@ ("S" :> "s") @@ ("T" :> "t") @@
    ("U" :> "u") @@ ("V" :> "v") @@ ("W" :> "w") @@ ("X" :> "x") @@
    ("Y" :> "y") @@ ("Z" :> "z")

\* str.lower()
Lower(s) ==
    [i \in 1..Len(s) |->
        IF s[i] \in DOMAIN UpperToLower THEN UpperToLower[s[i]] ELSE s[i]]

DigitChars == <<"0", "1", "2", "3", "4", "5", "6", "7", "8", "9">>

DigitSet == {DigitChars[i] : i \in 1..10}

DigitVal(c) == (CHOOSE i \in 1..10 : DigitChars[i] = c) - 1

RECURSIVE StrInt(_)
\* str(n) of a non-negative int: its decimal digits, no padding
StrInt(n) ==
    IF n < 10 THEN <<DigitChars[n + 1]>>
    ELSE StrInt(n \div 10) \o <<DigitChars[(n % 10) + 1]>>

RECURSIVE DigitsVal(_)
DigitsVal(s) ==
    IF s = <<>> THEN 0
    ELSE 10 * DigitsVal(SubSeq(s, 1, Len(s) - 1)) + DigitVal(s[Len(s)])

\* int(s) of a str succeeds on a non-empty string of decimal digits
IsNumeric(s) == s # <<>> /\ \A i \in 1..Len(s) : s[i] \in DigitSet

-----------------------------------------------------------------------------
(* regolith/dates.py                                                       *)

MONTHS ==
     { <<<<"j", "a", "n">>, 1>>,
       <<<<"j", "a", "n", ".">>, 1>>,
       <<<<"j", "a", "n", "u", "a", "r", "y">>, 1>>,
       <<<<"f", "e", "b">>, 2>>,
       <<<<"f", "e", "b", ".">>, 2>>,
       <<<<"f", "e", "b", "r", "u", "a", "r", "y">>, 2>>,
       <<<<"m", "a", "r">>, 3>>,
       <<<<"m", "a", "r", ".">>, 3>>,
       <<<<"m", "a", "r", "c", "h">>, 3>>,
       <<<<"a", "p", "r">>, 4>>,
       <<<<"a", "p", "r", ".">>, 4>>,
       <<<<"a", "p", "r", "i", "l">>, 4>>,
       <<<<"m", "a", "y">>, 5>>,
       <<<<"m", "a", "y", ".">>, 5>>,
       <<<<"j", "u", "n">>, 6>>,
       <<<<"j", "u", "n", ".">>, 6>>,
       <<<<"j", "u", "n", "e">>, 6>>,
       <<<<"j", "u", "l">>, 7>>,
       <<<<"j", "u", "l", ".">>, 7>>,
       <<<<"j", "u", "l", "y">>, 7>>,
       <<<<"a", "u", "g">>, 8>>,
       <<<<"a", "u", "g", ".">>, 8>>,
       <<<<"a", "u", "g", "u", "s", "t">>, 8>>,
       <<<<"s", "e", "p">>, 9>>,
       <<<<"s", "e", "p", ".">>, 9>>,
       <<<<"s", "e", "p", "t">>, 9>>,
       <<<<"s", "e", "p", "t", ".">>, 9>>,
       <<<<"s", "e", "p", "t", "e", "m", "b", "e", "r">>, 9>>,
       <<<<"o", "c", "t">>, 10>>,
       <<<<"o", "c", "t", ".">>, 10>>,
       <<<<"o", "c", "t", "o", "b", "e", "r">>, 10>>,
       <<<<"n", "o", "v">>, 11>>,
       <<<<"n", "o", "v", ".">>, 11>>,
       <<<<"n", "o", "v", "e", "m", "b", "e", "r">>, 11>>,
       <<<<"d", "e", "c">>, 12>>,
       <<<<"d", "e", "c", ".">>, 12>>,
       <<<<"d", "e", "c", "e", "m", "b", "e", "r">>, 12>>,
       <<<<>>, 1>> }

MonthKeys == {p[1] : p \in MONTHS}

\* month_to_int taking a str that is no key for January
month_to_int_unknown_is_january(m) ==
    IF IsPInt(m) THEN Ok(m.int)
    ELSE IF IsNumeric(m.str) THEN Ok(DigitsVal(m.str))
    ELSE IF Lower(m.str) \in MonthKeys
         THEN Ok((CHOOSE p \in MONTHS : p[1] = Lower(m.str))[2])
         ELSE Ok(1)

\* month_to_int looking the str up as it is, without lower()
month_to_int_no_lower(m) ==
    IF IsPInt(m) THEN Ok(m.int)
    ELSE IF IsNumeric(m.str) THEN Ok(DigitsVal(m.str))
    ELSE IF m.str \in MonthKeys
         THEN Ok((CHOOSE p \in MONTHS : p[1] = m.str)[2])
         ELSE Raise("KeyError")

\* month_to_int(m): int(m), and on ValueError the table entry of m.lower();
\* a str that is neither numeric nor a key raises KeyError
month_to_int(m) ==
    IF IsPInt(m) THEN Ok(m.int)
    ELSE IF IsNumeric(m.str) THEN Ok(DigitsVal(m.str))
    ELSE IF Lower(m.str) \in MonthKeys
         THEN Ok((CHOOSE p \in MONTHS : p[1] = Lower(m.str))[2])
         ELSE Raise("KeyError")

IsLeap(y) == (y % 4 = 0) /\ ((y % 100 # 0) \/ (y % 400 = 0))

\* monthrange without the leap day
MonthLastDay_no_leap(y, m) ==
    IF m = 2 THEN 28
    ELSE IF m \in {4, 6, 9, 11} THEN 30 ELSE 31

\* calendar.monthrange(y, m)[1]
MonthLastDay(y, m) ==
    IF m = 2 THEN (IF IsLeap(y) THEN 29 ELSE 28)
    ELSE IF m \in {4, 6, 9, 11} THEN 30 ELSE 31

\* the (year, month, day) triples datetime.date accepts
ValidDate(y, m, d) == m \in 1..12 /\ d \in 1..MonthLastDay(y, m)

Date(y, m, d) == [year |-> y, month |-> m, day |-> d]

\* datetime.date ordering
DateLE(a, b) ==
    \/ a.year < b.year
    \/ a.year = b.year /\ a.month < b.month
    \/ a.year = b.year /\ a.month = b.month /\ a.day <= b.day

DateLT(a, b) == DateLE(a, b) /\ a # b


\* the character of s at position i, "" past the end
Ch(s, i) == IF i \in 1..Len(s) THEN s[i] ELSE ""

NonZeroDigits == DigitSet \ {"0"}

\* the alternatives of the regular expression of %m, in the order tried:
\* 1[0-2] | 0[1-9] | [1-9]
MAltOk(s, i, a) ==
    CASE a = 1 -> Ch(s, i) = "1" /\ Ch(s, i + 1) \in {"0", "1", "2"}
      [] a = 2 -> Ch(s, i) = "0" /\ Ch(s, i + 1) \in NonZeroDigits
      [] a = 3 -> Ch(s, i) \in NonZeroDigits

MAltLen(a) == IF a = 3 THEN 1 ELSE 2

\* the alternatives of the regular expression of %d, in the order tried:
\* 3[0-1] | [1-2]\d | 0[1-9] | [1-9] | " "[1-9]
DAltOk(s, i, a) ==
    CASE a = 1 -> Ch(s, i) = "3" /\ Ch(s, i + 1) \in {"0", "1"}
      [] a = 2 -> Ch(s, i) \in {"1", "2"} /\ Ch(s, i + 1) \in DigitSet
      [] a = 3 -> Ch(s, i) = "0" /\ Ch(s, i + 1) \in NonZeroDigits
      [] a = 4 -> Ch(s, i) \in NonZeroDigits
      [] a = 5 -> Ch(s, i) = " " /\ Ch(s, i + 1) \in NonZeroDigits

DAltLen(a) == IF a = 4 THEN 1 ELSE 2

\* datetime.strptime(s, '%Y%m%d').date(): the regular expression
\* (\d\d\d\d)(month)(day) is matched at the start of s, taking the first
\* alternatives (in backtracking order) that match; text left over after
\* the match, or a day the month does not have, is a ValueError
strptime_Ymd(s) ==
    LET YOk == \A i \in 1..4 : Ch(s, i) \in DigitSet
        M == {p \in (1..3) \X (1..5) :
                MAltOk(s, 5, p[1]) /\ DAltOk(s, 5 + MAltLen(p[1]), p[2])}
        First == CHOOSE p \in M : \A q \in M :
                    p[1] < q[1] \/ (p[1] = q[1] /\ p[2] <= q[2])
        ml == MAltLen(First[1])
        dl == DAltLen(First[2])
        y == DigitsVal(SubSeq(s, 1, 4))
        m == DigitsVal(SubSeq(s, 5, 4 + ml))
        dtxt == SubSeq(s, 5 + ml, 4 + ml + dl)
        d == DigitsVal(IF First[2] = 5 THEN Tail(dtxt) ELSE dtxt)
    IN  IF ~YOk \/ M = {} THEN Raise("ValueError")
        ELSE IF 4 + ml + dl # Len(s) THEN Raise("ValueError")
        ELSE IF ~ValidDate(y, m, d) THEN Raise("ValueError")
        ELSE Ok(Date(y, m, d))

\* begin_end_date(doc).  A missing month reaches int(None) (TypeError), a
\* missing end_year reaches monthrange(None, em) (TypeError), a missing
\* begin_year is formatted as "None" and rejected by strptime (ValueError).
begin_end_date(doc) ==
    LET bmr == IF Has(doc, "begin_month") THEN month_to_int(doc["begin_month"])
               ELSE Raise("TypeError")
        emr == IF Has(doc, "end_month") THEN month_to_int(doc["end_month"])
               ELSE Raise("TypeError")
        bd == StrInt(Get(doc, "begin_day", 1))
        month_last_day == MonthLastDay(doc["end_year"], emr.ok)
        ed == StrInt(Get(doc, "end_day", month_last_day))
        startdate == strptime_Ymd(StrInt(doc["begin_year"]) \o StrInt(bmr.ok) \o bd)
        enddate == strptime_Ymd(StrInt(doc["end_year"]) \o StrInt(emr.ok) \o ed)
    IN  IF IsRaise(bmr) THEN bmr
        ELSE IF IsRaise(emr) THEN emr
        ELSE IF emr.ok \notin 1..12 THEN Raise("IllegalMonthError")
        ELSE IF ~Has(doc, "end_year") THEN Raise("TypeError")
        ELSE IF ~Has(doc, "begin_year") THEN Raise("ValueError")
        ELSE IF IsRaise(startdate) THEN startdate
        ELSE IF IsRaise(enddate) THEN enddate
        ELSE Ok(<<startdate.ok, enddate.ok>>)

-----------------------------------------------------------------------------
(* Inputs of the date tools                                                *)

MinYear == 2019

MaxYear == 2020

MaxDay == 31

Years == MinYear..MaxYear

S_Jan == <<"J", "a", "n">>

S_jan == <<"j", "a", "n">>

S_Feb == <<"F", "e", "b">>

S_February == <<"F", "e", "b", "r", "u", "a", "r", "y">>

S_Oct == <<"O", "c", "t">>

S_NOV == <<"N", "O", "V", ".">>

S_dec == <<"d", "e", "c">>

S_num3 == <<"0", "3">>

S_bad == <<"F", "o", "o">>

\* months given as integers, as names and as a numeric string
MonthInputs ==
    {PInt(k) : k \in 1..12} \cup
    {PStr(s) : s \in {S_Jan, S_jan, S_Feb, S_February, S_Oct, S_NOV, S_dec,
                      S_num3}}

\* the month a valid month input denotes
MonthOf(m) == month_to_int(m).ok

\* (year, month, day) inputs denoting valid calendar dates
DateInputs ==
    {t \in Years \X MonthInputs \X (1..MaxDay) :
        ValidDate(t[1], MonthOf(t[2]), t[3])}

\* a few dates paired with every date of DateInputs
FewDateInputs ==
    {<<MinYear, PInt(1), 15>>, <<MaxYear, PStr(S_Feb), 29>>,
     <<MaxYear, PStr(S_NOV), 30>>} \cap DateInputs

BeginPart(t, withDay) ==
    ("begin_year" :> t[1]) @@ ("begin_month" :> t[2]) @@
    (IF withDay THEN ("begin_day" :> t[3]) ELSE EmptyDoc)

EndPart(t, withDay) ==
    ("end_year" :> t[1]) @@ ("end_month" :> t[2]) @@
    (IF withDay THEN ("end_day" :> t[3]) ELSE EmptyDoc)

\* documents with begin and end dates, the day fields present or absent
BEDDocs ==
    {BeginPart(b, bw) @@ EndPart(e, ew) :
        b \in DateInputs, e \in FewDateInputs, bw \in BOOLEAN, ew \in BOOLEAN}
    \cup
    {BeginPart(b, bw) @@ EndPart(e, ew) :
        b \in FewDateInputs, e \in DateInputs, bw \in BOOLEAN, ew \in BOOLEAN}

-----------------------------------------------------------------------------
(* begin_end_date called on a document                                     *)

InitBED ==
    /\ pc = "call"
    /\ args \in BEDDocs
    /\ people = <<>>
    /\ coll = <<>>
    /\ ret = NoRet

CallBeginEndDate ==
    /\ pc = "call"
    /\ ret' = begin_end_date(args)
    /\ pc' = "begin_end_date"
    /\ UNCHANGED <<args, people, coll>>

NextBED == CallBeginEndDate

SpecBED == InitBED /\ [][NextBED]_vars

\* C1: for a document whose six date fields denote valid calendar dates,
\* begin_end_date returns the begin date (begin_year, month_to_int(begin_month),
\* begin_day) and the end date (end_year, month_to_int(end_month), end_day).
C1_ReturnsDenotedDates ==
    (pc = "begin_end_date" /\ Has(args, "begin_day") /\ Has(args, "end_day")) =>
        /\ IsOk(ret)
        /\ ret.ok[1] = Date(args["begin_year"], MonthOf(args["begin_month"]),
                            args["begin_day"])
        /\ ret.ok[2] = Date(args["end_year"], MonthOf(args["end_month"]),
                            args["end_day"])


-----------------------------------------------------------------------------
(* regolith/tools.py: is_since, is_before, is_between                      *)

None == [none |-> TRUE]

\* Python truth value of an optional int: None and 0 are false
Falsy(v) == "none" \in DOMAIN v \/ (IsPInt(v) /\ v.int = 0)

\* datetime.strptime(s, "%d/%m/%Y"): day, "/", month, "/", four digits
strptime_dmY(s) ==
    LET M == {p \in (1..5) \X (1..3) :
                /\ DAltOk(s, 1, p[1])
                /\ Ch(s, 1 + DAltLen(p[1])) = "/"
                /\ MAltOk(s, 2 + DAltLen(p[1]), p[2])
                /\ Ch(s, 2 + DAltLen(p[1]) + MAltLen(p[2])) = "/"
                /\ \A i \in 1..4 :
                      Ch(s, 2 + DAltLen(p[1]) + MAltLen(p[2]) + i) \in DigitSet}
        First == CHOOSE p \in M : \A q \in M :
                    p[1] < q[1] \/ (p[1] = q[1] /\ p[2] <= q[2])
        dl == DAltLen(First[1])
        ml == MAltLen(First[2])
        dtxt == SubSeq(s, 1, dl)
        d == DigitsVal(IF First[1] = 5 THEN Tail(dtxt) ELSE dtxt)
        m == DigitsVal(SubSeq(s, 2 + dl, 1 + dl + ml))
        y == DigitsVal(SubSeq(s, 3 + dl + ml, 6 + dl + ml))
    IN  IF M = {} THEN Raise("ValueError")
        ELSE IF 6 + dl + ml # Len(s) THEN Raise("ValueError")
        ELSE IF ~ValidDate(y, m, d) THEN Raise("ValueError")
        ELSE Ok(Date(y, m, d))

\* "{}/{}/{}".format(d, m, y)
format_dmY(d, m, y) == StrInt(d) \o <<"/">> \o StrInt(m) \o <<"/">> \o StrInt(y)

RECURSIVE DaysBeforeMonth(_, _)
DaysBeforeMonth(y, m) ==
    IF m <= 1 THEN 0 ELSE DaysBeforeMonth(y, m - 1) + MonthLastDay(y, m - 1)

\* date.toordinal(): day 1 is 0001-01-01
ToOrdinal(dt) ==
    LET p == dt.year - 1
    IN  365 * p + (p \div 4) - (p \div 100) + (p \div 400)
        + DaysBeforeMonth(dt.year, dt.month) + dt.day

\* time.mktime(dt.timetuple()) of a date at midnight: seconds since the
\* epoch (UTC), strictly increasing with the date
mktime(dt) == (ToOrdinal(dt) - 719163) * 86400

\* is_since(y, sy, m, d, sm, sd) with every argument resolved
is_since(y, sy, m, d, sm, sd) ==
    LET smr == month_to_int(sm)
        mr == month_to_int(m)
        since == strptime_dmY(format_dmY(sd, smr.ok, sy))
        date == strptime_dmY(format_dmY(d, mr.ok, y))
    IN  IF IsRaise(smr) THEN smr
        ELSE IF IsRaise(mr) THEN mr
        ELSE IF IsRaise(since) THEN since
        ELSE IF IsRaise(date) THEN date
        ELSE Ok(mktime(since.ok) <= mktime(date.ok))

\* is_before with a missing day read as 28, the default its docstring names
is_before_day_28(y, by, m, d, bm, bd) ==
    LET mr == month_to_int(m)
        bmr == month_to_int(bm)
        d2 == IF Falsy(d) THEN 28 ELSE d.int
        bd2 == IF Falsy(bd) THEN 28 ELSE bd.int
        before == strptime_dmY(format_dmY(bd2, bmr.ok, by))
        date == strptime_dmY(format_dmY(d2, mr.ok, y))
    IN  IF IsRaise(mr) THEN mr
        ELSE IF IsRaise(bmr) THEN bmr
        ELSE IF IsRaise(before) THEN before
        ELSE IF IsRaise(date) THEN date
        ELSE Ok(mktime(before.ok) >= mktime(date.ok))

\* is_before(y, by, m, d, bm, bd); d and bd are None or [int |-> day]
is_before(y, by, m, d, bm, bd) ==
    LET mr == month_to_int(m)
        bmr == month_to_int(bm)
        d2 == IF Falsy(d) THEN MonthLastDay(y, mr.ok) ELSE d.int
        bd2 == IF Falsy(bd) THEN MonthLastDay(by, bmr.ok) ELSE bd.int
        before == strptime_dmY(format_dmY(bd2, bmr.ok, by))
        date == strptime_dmY(format_dmY(d2, mr.ok, y))
    IN  IF IsRaise(mr) THEN mr
        ELSE IF Falsy(d) /\ mr.ok \notin 1..12 THEN Raise("IllegalMonthError")
        ELSE IF IsRaise(bmr) THEN bmr
        ELSE IF Falsy(bd) /\ bmr.ok \notin 1..12 THEN Raise("IllegalMonthError")
        ELSE IF IsRaise(before) THEN before
        ELSE IF IsRaise(date) THEN date
        ELSE Ok(mktime(before.ok) >= mktime(date.ok))

\* is_between forgetting to hand the since-month to is_since
is_between_drops_sm(y, sy, by, m, d, sm, sd, bm, bd) ==
    LET bmr == month_to_int(bm)
        bd2 == IF Falsy(bd) THEN PInt(MonthLastDay(by, bmr.ok)) ELSE bd
        s == is_since(y, sy, m, d, PInt(1), sd)
    IN  IF Falsy(bd) /\ IsRaise(bmr) THEN bmr
        ELSE IF Falsy(bd) /\ bmr.ok \notin 1..12 THEN Raise("IllegalMonthError")
        ELSE IF IsRaise(s) THEN s
        ELSE IF ~s.ok THEN Ok(FALSE)
        ELSE is_before(y, by, m, PInt(d), bm, bd2)

\* is_between(y, sy, by, m, d, sm, sd, bm, bd); d is an int, bd as above
is_between(y, sy, by, m, d, sm, sd, bm, bd) ==
    LET bmr == month_to_int(bm)
        bd2 == IF Falsy(bd) THEN PInt(MonthLastDay(by, bmr.ok)) ELSE bd
        s == is_since(y, sy, m, d, sm, sd)
    IN  IF Falsy(bd) /\ IsRaise(bmr) THEN bmr
        ELSE IF Falsy(bd) /\ bmr.ok \notin 1..12 THEN Raise("IllegalMonthError")
        ELSE IF IsRaise(s) THEN s
        ELSE IF ~s.ok THEN Ok(FALSE)
        ELSE is_before(y, by, m, PInt(d), bm, bd2)

\* the calls, with the defaults of each signature for the omitted arguments
is_since_call(a) ==
    is_since(a["y"], a["sy"], Get(a, "m", PInt(1)), Get(a, "d", 1),
             Get(a, "sm", PInt(1)), Get(a, "sd", 1))

is_before_call(a) ==
    is_before(a["y"], a["by"], Get(a, "m", PInt(12)),
              IF Has(a, "d") THEN PInt(a["d"]) ELSE None,
              Get(a, "bm", PInt(12)),
              IF Has(a, "bd") THEN PInt(a["bd"]) ELSE None)

is_between_call(a) ==
    is_between(a["y"], a["sy"], a["by"], Get(a, "m", PInt(1)), Get(a, "d", 1),
               Get(a, "sm", PInt(1)), Get(a, "sd", 1), Get(a, "bm", PInt(12)),
               IF Has(a, "bd") THEN PInt(a["bd"]) ELSE None)

\* an optional keyword argument: omitted, or one of the values of S
Opt(k, S) == {EmptyDoc} \cup {(k :> v) : v \in S}

BetweenArgs ==
    {("y" :> y) @@ ("sy" :> sy) @@ ("by" :> by) @@ m @@ d @@ sm @@ sd @@ bm @@ bd :
        y \in Years, sy \in Years, by \in Years,
        m \in Opt("m", {PInt(1), PStr(S_Feb), PInt(6), PInt(12)}),
        d \in Opt("d", {1, 15, 28}),
        sm \in Opt("sm", {PInt(1), PInt(6)}),
        sd \in Opt("sd", {1, 15}),
        bm \in Opt("bm", {PStr(S_Feb), PInt(6)}),
        bd \in Opt("bd", {15, 28})}

InitBetween ==
    /\ pc = "call"
    /\ args \in BetweenArgs
    /\ people = <<>>
    /\ coll = <<>>
    /\ ret = NoRet

CallIsSince ==
    /\ pc = "call"
    /\ ret' = is_since_call(args)
    /\ pc' = "is_since"
    /\ UNCHANGED <<args, people, coll>>

CallIsBefore ==
    /\ pc = "call"
    /\ ret' = is_before_call(args)
    /\ pc' = "is_before"
    /\ UNCHANGED <<args, people, coll>>

CallIsBetween ==
    /\ pc = "call"
    /\ ret' = is_between_call(args)
    /\ pc' = "is_between"
    /\ UNCHANGED <<args, people, coll>>

NextBetween == CallIsSince \/ CallIsBefore \/ CallIsBetween

SpecBetween == InitBetween /\ [][NextBetween]_vars

BothParts(a) == is_since_call(a) = Ok(TRUE) /\ is_before_call(a) = Ok(TRUE)

\* C2 (as stated): whichever optional month/day arguments are supplied or
\* omitted, is_between is true iff is_since and is_before on the same
\* arguments are both true.
C2_BetweenIffBothParts ==
    pc = "is_between" => ((ret = Ok(TRUE)) <=> BothParts(args))

\* C2 (amended): when the target month and the target day are both
\* supplied, is_between is true iff is_since and is_before on the same
\* arguments are both true, whichever bound month/day arguments are given.
C2_BetweenIffBothPartsFullTarget ==
    (pc = "is_between" /\ Has(args, "m") /\ Has(args, "d")) =>
        ((ret = Ok(TRUE)) <=> BothParts(args))

\* a window closed by an omitted before-day, met by a fully given target
C2_Witness ==
    /\ pc = "is_between"
    /\ Has(args, "m") /\ Has(args, "d") /\ ~Has(args, "bd") /\ Has(args, "bm")
    /\ ret = Ok(TRUE)


-----------------------------------------------------------------------------
(* regolith/tools.py: filter_service, filter_facilities, filter_activities, *)
(* filter_employment_for_advisees.  The documents of the people collection  *)
(* are shared with the caller: copy() copies a list, not its documents, so  *)
(* an assignment to a field of p or of a nested record i is an assignment   *)
(* to the caller's document.                                                *)

S_Mar == <<"M", "a", "r">>

SHORT_MONTH_NAMES ==
    << None, PStr(S_Jan), PStr(S_Feb), PStr(S_Mar),
       PStr(<<"A", "p", "r">>), PStr(<<"M", "a", "y">>),
       PStr(<<"J", "u", "n">>), PStr(<<"J", "u", "l">>),
       PStr(<<"A", "u", "g">>), PStr(<<"S", "e", "p", "t">>),
       PStr(S_Oct), PStr(<<"N", "o", "v">>), PStr(<<"D", "e", "c">>) >>

\* SHORT_MONTH_NAMES[k] of a tuple of 13 items: indices -13..12
short_month_name(k) ==
    IF k \in 0..12 THEN Ok(SHORT_MONTH_NAMES[k + 1])
    ELSE IF k \in (-13)..(-1) THEN Ok(SHORT_MONTH_NAMES[k + 14])
    ELSE Raise("IndexError")

\* Python truth value of None, an int or a str
FalsyV(v) ==
    \/ "none" \in DOMAIN v
    \/ IsPInt(v) /\ v.int = 0
    \/ IsPStr(v) /\ v.str = <<>>

\* datetime.date(y, m, d)
date(y, m, d) == IF ValidDate(y, m, d) THEN Ok(Date(y, m, d)) ELSE Raise("ValueError")

\* the month normalisation of a surviving record:
\*   if not i.get('month'): i['month'] = SHORT_MONTH_NAMES[month_to_int(i.get("begin_month", 0))]
\*   else:                  i['month'] = SHORT_MONTH_NAMES[month_to_int(i['month'])]
normalize_month(i) ==
    LET src == IF FalsyV(Get(i, "month", None))
               THEN Get(i, "begin_month", PInt(0)) ELSE i["month"]
        Assign(name) == IF IsRaise(name) THEN name
                        ELSE Ok(Put(i, "month", name.ok))
        Named(k) == IF IsRaise(k) THEN k ELSE Assign(short_month_name(k.ok))
    IN  Named(month_to_int(src))

\* the end date with end_year read before year
record_end_date_end_year_first(i, today) ==
    LET end_year == IF Get(i, "end_year", 0) # 0 THEN i["end_year"]
                    ELSE IF Get(i, "year", 0) # 0 THEN i["year"]
                    ELSE today.year
    IN  date(end_year, Get(i, "end_month", 12), Get(i, "end_day", 28))

\* the end date of a nested record: year, else end_year, else this year;
\* end_month (default 12) and end_day (default 28) go to date() as they are
record_end_date(i, today) ==
    LET end_year == IF Get(i, "year", 0) # 0 THEN i["year"]
                    ELSE IF Get(i, "end_year", 0) # 0 THEN i["end_year"]
                    ELSE today.year
    IN  date(end_year, Get(i, "end_month", 12), Get(i, "end_day", 28))

\* the body of "for i in svc" for the record at position k; acc.recs are
\* the records of the list (changed in place), acc.mine the list built
nested_step(acc, k, type, begin_period, today) ==
    LET i == acc.recs[k]
        Keep(norm) ==
            IF IsRaise(norm) THEN [acc EXCEPT !.err = norm]
            ELSE [acc EXCEPT !.recs[k] = norm.ok,
                             !.mine = Append(acc.mine, norm.ok)]
        Gate(end_date) ==
            IF IsRaise(end_date) THEN [acc EXCEPT !.err = end_date]
            ELSE IF ~DateLE(begin_period, end_date.ok) THEN acc
            ELSE Keep(normalize_month(i))
    IN  IF Get(i, "type", "") # type THEN acc
        ELSE Gate(record_end_date(i, today))

RECURSIVE nested_loop(_, _, _, _, _)
nested_loop(acc, k, type, begin_period, today) ==
    IF k > Len(acc.recs) \/ acc.err # NoRet THEN acc
    ELSE nested_loop(nested_step(acc, k, type, begin_period, today),
                     k + 1, type, begin_period, today)

\* the body of "for p in people" for the person at position n; st.people
\* is the caller's collection, st.out the list built, st.err the exception
person_step(st, n, key, type, begin_period, today) ==
    LET p == st.people[n]
        svc == Get(p, key, <<>>)
        Assign(r) ==
            IF r.err # NoRet
            THEN [st EXCEPT !.people[n] = IF Has(p, key) THEN Put(p, key, r.recs)
                                          ELSE p,
                            !.err = r.err]
            ELSE [st EXCEPT !.people[n] = Put(p, key, r.mine),
                            !.out = IF Len(r.mine) > 0 THEN Append(st.out, n)
                                    ELSE st.out]
    IN  Assign(nested_loop([recs |-> svc, mine |-> <<>>, err |-> NoRet],
                           1, type, begin_period, today))

RECURSIVE person_loop(_, _, _, _, _, _)
person_loop(st, n, key, type, begin_period, today) ==
    IF n > Len(st.people) \/ st.err # NoRet THEN st
    ELSE person_loop(person_step(st, n, key, type, begin_period, today),
                     n + 1, key, type, begin_period, today)

\* the outcome of a loop over the people collection: the collection as the
\* call leaves it, and the returned list, which holds the documents of the
\* collection themselves (st.out are their positions), or the exception
Returned(st) ==
    [people |-> st.people,
     ret |-> IF st.err # NoRet THEN st.err
             ELSE Ok([j \in 1..Len(st.out) |-> st.people[st.out[j]]])]

\* the loop shared by the three filters
filter_nested(ppl, key, begin_period, type, today) ==
    Returned(person_loop([people |-> ppl, out |-> <<>>, err |-> NoRet],
                         1, key, type, begin_period, today))

\* filter_service: people = copy(ppl) copies the list only
filter_service(ppl, begin_period, type, today) ==
    filter_nested(ppl, "service", begin_period, type, today)

filter_facilities(ppl, begin_period, type, today) ==
    filter_nested(ppl, "facilities", begin_period, type, today)

filter_activities(ppl, begin_period, type, today) ==
    filter_nested(ppl, "activities", begin_period, type, today)


\* the body of "for i in p.get('employment', [])" for the record at
\* position k of person n; st as in person_step, today is date.today()
employment_step(st, n, k, begin_period, status, today) ==
    LET p == st.people[n]
        i == p["employment"][k]
        has_end == Get(i, "end_year", 0) # 0
        i2 == IF has_end THEN i ELSE Put(i, "end_year", today.year)
        Advisee(p2) ==
            Put(Put(Put(p2, "role", Get(i2, "position", None)),
                    "status", status),
                "end_year", i2["end_year"])
        Gate(end_date, p2) ==
            IF IsRaise(end_date) THEN [st EXCEPT !.err = end_date]
            ELSE IF ~DateLE(begin_period, end_date.ok)
                 THEN [st EXCEPT !.people[n] = p2]
            ELSE [st EXCEPT !.people[n] = Advisee(p2), !.out = Append(st.out, n)]
    IN  IF Get(i, "status", "") # status THEN st
        ELSE Gate(IF has_end
                  THEN date(i["end_year"], Get(i, "end_month", 12),
                            Get(i, "end_day", 28))
                  ELSE Ok(today),
                  Put(p, "employment", [p["employment"] EXCEPT ![k] = i2]))

RECURSIVE employment_loop(_, _, _, _, _, _)
employment_loop(st, n, k, begin_period, status, today) ==
    IF n > Len(st.people) \/ st.err # NoRet THEN st
    ELSE IF k > Len(Get(st.people[n], "employment", <<>>))
         THEN employment_loop(st, n + 1, 1, begin_period, status, today)
    ELSE employment_loop(employment_step(st, n, k, begin_period, status, today),
                         n, k + 1, begin_period, status, today)

\* filter_employment_for_advisees: a person is appended once for each
\* qualifying employment, and the list holds the person document itself
filter_employment_for_advisees(ppl, begin_period, status, today) ==
    Returned(employment_loop([people |-> ppl, out |-> <<>>, err |-> NoRet],
                             1, 1, begin_period, status, today))

-----------------------------------------------------------------------------
(* Inputs of the people filters                                            *)

MaxPeople == 2

MaxRecs == 2

PersonIds == <<"p1", "p2", "p3", "p4">>

TypeInputs == {"profession", "school"}

StatusInputs == {"phd", "ms"}

PeriodInputs == {Date(MaxYear, 1, 1)}

TodayInputs == {Date(MaxYear + 1, 6, 15)}

\* the date fields of a nested record: none (this year is used), a year
\* before the period, an end date on the first day of the period, and a
\* year that takes precedence over an earlier end_year
RecYearParts ==
    {EmptyDoc,
     ("year" :> MinYear),
     ("end_year" :> MaxYear) @@ ("end_month" :> 1) @@ ("end_day" :> 1),
     ("year" :> MaxYear) @@ ("end_year" :> MinYear)}

RecMonthParts ==
    {("month" :> PInt(9)), ("begin_month" :> PStr(S_Oct))}

ServiceRecs ==
    {("type" :> t) @@ y : t \in TypeInputs, y \in RecYearParts}
    \cup {("type" :> "profession") @@ ("year" :> MaxYear) @@ m : m \in RecMonthParts}

FewRecs ==
    {("type" :> "profession") @@ ("month" :> PStr(S_Feb)),
     ("type" :> "school") @@ ("year" :> MinYear),
     ("type" :> "school") @@ ("end_year" :> MaxYear)}

EmploymentRecs ==
    {("status" :> st) @@ ("position" :> PStr(S_Mar)) @@ y :
        st \in StatusInputs,
        y \in {EmptyDoc, ("end_year" :> MinYear)}}

RECURSIVE SumLens(_, _)
SumLens(lens, n) == IF n = 0 THEN 0 ELSE SumLens(lens, n - 1) + lens[n]

\* the collections of 1..MaxPeople persons holding, under the key, at most
\* MaxRecs nested records of Recs in all; a person without records has
\* no such key
PeopleWith(key, Recs) ==
    UNION { UNION { { [n \in 1..np |->
                         LET off == SumLens(lens, n - 1)
                         IN  ("_id" :> PersonIds[n]) @@
                             (IF lens[n] = 0 THEN EmptyDoc
                              ELSE (key :> SubSeq(flat, off + 1, off + lens[n])))] :
                      flat \in [1..SumLens(lens, np) -> Recs] } :
                    lens \in {l \in [1..np -> 0..MaxRecs] : SumLens(l, np) <= MaxRecs} } :
            np \in 1..MaxPeople }

PeopleInputs ==
    PeopleWith("service", ServiceRecs) \cup PeopleWith("facilities", FewRecs)
    \cup PeopleWith("activities", FewRecs)
    \cup PeopleWith("employment", EmploymentRecs)

-----------------------------------------------------------------------------
(* The people filters called, any number of times, on one collection;     *)
(* coll keeps the collection as it was before the first call.               *)

InitPeople ==
    /\ pc = "call"
    /\ args = EmptyDoc
    /\ people \in PeopleInputs
    /\ coll = people
    /\ ret = NoRet

\* a call on the people collection has returned r
PeopleCall(fn, a, r) ==
    /\ people' = r.people
    /\ ret' = r.ret
    /\ args' = a
    /\ pc' = fn
    /\ UNCHANGED coll

CallFilterService ==
    \E bp \in PeriodInputs, ty \in TypeInputs, today \in TodayInputs :
        PeopleCall("filter_service",
                   [begin_period |-> bp, type |-> ty, today |-> today],
                   filter_service(people, bp, ty, today))

CallFilterFacilities ==
    \E bp \in PeriodInputs, ty \in TypeInputs, today \in TodayInputs :
        PeopleCall("filter_facilities",
                   [begin_period |-> bp, type |-> ty, today |-> today],
                   filter_facilities(people, bp, ty, today))

CallFilterActivities ==
    \E bp \in PeriodInputs, ty \in TypeInputs, today \in TodayInputs :
        PeopleCall("filter_activities",
                   [begin_period |-> bp, type |-> ty, today |-> today],
                   filter_activities(people, bp, ty, today))

CallFilterEmployment ==
    \E bp \in PeriodInputs, st \in StatusInputs, today \in TodayInputs :
        PeopleCall("filter_employment_for_advisees",
                   [begin_period |-> bp, type |-> st, today |-> today],
                   filter_employment_for_advisees(people, bp, st, today))

NextPeople ==
    \/ CallFilterService
    \/ CallFilterFacilities
    \/ CallFilterActivities
    \/ CallFilterEmployment

SpecPeople == InitPeople /\ [][NextPeople]_vars

\* C3: no filter changes its inputs: after a call every document of the
\* caller's collections, nested records and fields included, has the value
\* it had before the call.
C3_InputsNotMutated == [][people' = people /\ coll' = coll]_vars


-----------------------------------------------------------------------------
(* regolith/tools.py: fuzzy_retrieval.  The fields it reads hold values of  *)
(* any type, so they are tagged: [str |-> s], [int |-> k], and             *)
(* [list |-> <<...>>] for a list of such values.                           *)

PList(l) == [list |-> l]

IsPList(v) == "list" \in DOMAIN v

\* Python == on ints and strs
PyEq(a, b) ==
    \/ IsPStr(a) /\ IsPStr(b) /\ a.str = b.str
    \/ IsPInt(a) /\ IsPInt(b) /\ a.int = b.int

\* v in l, for a list l
PyIn(v, l) == \E j \in 1..Len(l) : PyEq(l[j], v)

RECURSIVE gather(_, _, _)
\* returns = []; for k in sources: ret = doc.get(k, []); a value that is
\* not a list is wrapped in one; returns.extend(ret)
gather(doc, sources, k) ==
    IF k > Len(sources) THEN <<>>
    ELSE LET got == Get(doc, sources[k], PList(<<>>))
         IN  (IF IsPList(got) THEN got.list ELSE <<got>>)
             \o gather(doc, sources, k + 1)

\* [reti.lower() for reti in returns if isinstance(reti, str)]
lower_strs(returns) ==
    LET strs == SelectSeq(returns, IsPStr)
    IN  [j \in 1..Len(strs) |-> PStr(Lower(strs[j].str))]

\* the test without the lowering of the target value
fuzzy_match_value_as_is(returns, value, case_sensitive) ==
    IF ~case_sensitive
    THEN IsPStr(value) /\ PyIn(value, lower_strs(returns))
    ELSE PyIn(value, returns)

\* the test made on one document
fuzzy_match(returns, value, case_sensitive) ==
    IF ~case_sensitive
    THEN IsPStr(value) /\ PyIn(PStr(Lower(value.str)), lower_strs(returns))
    ELSE PyIn(value, returns)

RECURSIVE fuzzy_from(_, _, _, _, _)
\* "for doc in documents" from position n on; falling off the end of the
\* loop returns None
fuzzy_from(documents, n, sources, value, case_sensitive) ==
    IF n > Len(documents) THEN None
    ELSE IF fuzzy_match(gather(documents[n], sources, 1), value, case_sensitive)
         THEN documents[n]
    ELSE fuzzy_from(documents, n + 1, sources, value, case_sensitive)

fuzzy_retrieval(documents, sources, value, case_sensitive) ==
    fuzzy_from(documents, 1, sources, value, case_sensitive)

-----------------------------------------------------------------------------
(* fuzzy_retrieval called on a collection                                  *)

MaxDocs == 2

S_Jane == <<"J", "a", "n", "e">>

S_jane == <<"j", "a", "n", "e">>

S_JANE == <<"J", "A", "N", "E">>

S_Bob == <<"B", "o", "b">>

S_jd == <<"j", "d">>

NameSources == <<"aka", "name", "_id">>

FuzzyDocs ==
    {("_id" :> id) @@ name @@ aka :
        id \in {PStr(S_jd), PInt(7)},
        name \in Opt("name", {PStr(S_Jane)}),
        aka \in Opt("aka", {PList(<<PStr(S_jane)>>),
                            PList(<<PStr(S_Bob), PStr(S_JANE)>>),
                            PStr(S_Bob), PList(<<PInt(7)>>)})}

FuzzyValues == {PStr(S_Jane), PStr(S_jane), PStr(S_Bob), PStr(S_jd), PInt(7)}

FuzzyArgs ==
    [sources : {NameSources, <<"name">>}, value : FuzzyValues,
     case_sensitive : BOOLEAN]

InitFuzzy ==
    /\ pc = "call"
    /\ args \in FuzzyArgs
    /\ people = <<>>
    /\ coll \in UNION {[1..n -> FuzzyDocs] : n \in 0..MaxDocs}
    /\ ret = NoRet

CallFuzzyRetrieval ==
    /\ pc = "call"
    /\ ret' = Ok(fuzzy_retrieval(coll, args.sources, args.value,
                                 args.case_sensitive))
    /\ pc' = "fuzzy_retrieval"
    /\ UNCHANGED <<args, people, coll>>

NextFuzzy == CallFuzzyRetrieval

SpecFuzzy == InitFuzzy /\ [][NextFuzzy]_vars

\* the values found in doc under the fields: a list gives its elements,
\* any other value itself
ValuesUnder(doc, fields) ==
    UNION {IF IsPList(doc[k]) THEN {doc[k].list[j] : j \in 1..Len(doc[k].list)}
           ELSE {doc[k]} :
           k \in {fields[j] : j \in 1..Len(fields)} \cap DOMAIN doc}

\* two strings that differ at most in the case of their letters
SameButCase(s, t) ==
    /\ Len(s) = Len(t)
    /\ \A j \in 1..Len(s) :
          \/ s[j] = t[j]
          \/ s[j] \in DOMAIN UpperToLower /\ UpperToLower[s[j]] = t[j]
          \/ t[j] \in DOMAIN UpperToLower /\ UpperToLower[t[j]] = s[j]

\* the documents the claim says match
C6_Matches(doc) ==
    \E v \in ValuesUnder(doc, args.sources) :
        IF args.case_sensitive THEN PyEq(v, args.value)
        ELSE IsPStr(v) /\ IsPStr(args.value) /\ SameButCase(v.str, args.value.str)

\* C6: fuzzy_retrieval returns the first document of the collection one of
\* whose values under the candidate fields equals the target (with
\* case_sensitive=False: is a string equal to the string target up to letter
\* case; a non-string target matches nothing), and None when there is none.
C6_FirstMatchOrNone ==
    pc = "fuzzy_retrieval" =>
        /\ IsOk(ret)
        /\ \/ /\ ret.ok = None
              /\ \A n \in 1..Len(coll) : ~C6_Matches(coll[n])
           \/ \E n \in 1..Len(coll) :
                /\ ret.ok = coll[n]
                /\ C6_Matches(coll[n])
                /\ \A k \in 1..(n - 1) : ~C6_Matches(coll[k])

\* a case-insensitive lookup passes a first document whose only string
\* values differ from the target in more than case, and returns the second,
\* which holds the target in another case
C6_Witness ==
    /\ pc = "fuzzy_retrieval"
    /\ ~args.case_sensitive
    /\ Len(coll) = 2
    /\ ret.ok = coll[2]
    /\ coll[1] # coll[2]
    /\ \A v \in ValuesUnder(coll[2], args.sources) : ~PyEq(v, args.value)


-----------------------------------------------------------------------------
(* regolith/tools.py: merge_collections.  A dict is a sequence of          *)
(* <<key, value>> pairs with distinct keys, in insertion order.            *)

DictHas(d, k) == \E j \in 1..Len(d) : d[j][1] = k

DictGet(d, k) == d[CHOOSE j \in 1..Len(d) : d[j][1] = k][2]

\* d[k] = v: a key already present keeps its place
DictSet(d, k, v) ==
    IF DictHas(d, k)
    THEN [j \in 1..Len(d) |-> IF d[j][1] = k THEN <<k, v>> ELSE d[j]]
    ELSE Append(d, <<k, v>>)

\* ChainDB(a, b): a is the inferior layer, b the superior layer
ChainDB(a, b) == [inferior |-> a, superior |-> b]

RECURSIVE by_id(_, _)
\* adict = {}; for k in a: adict[k.get("_id")] = k
by_id(docs, n) ==
    IF n = 0 THEN <<>>
    ELSE DictSet(by_id(docs, n - 1), docs[n]["_id"], docs[n])

RECURSIVE match_b(_, _, _, _, _)
\* for kk, v in bdict.items(): if v.get(target_id, "") == k: b_for_a[k] = kk
\* over the first n items of bdict
match_b(b_for_a, bdict, n, k, target_id) ==
    IF n = 0 THEN b_for_a
    ELSE LET prev == match_b(b_for_a, bdict, n - 1, k, target_id)
         IN  IF Get(bdict[n][2], target_id, "") = k
             THEN DictSet(prev, k, bdict[n][1]) ELSE prev

RECURSIVE match_a(_, _, _, _)
\* for k in adict: ... over the first n keys of adict
match_a(adict, bdict, n, target_id) ==
    IF n = 0 THEN <<>>
    ELSE match_b(match_a(adict, bdict, n - 1, target_id), bdict, Len(bdict),
                 adict[n][1], target_id)

\* chained[k] = ChainDB(adict[k], bdict[v]); list(chained.values())
chain_all(adict, bdict, b_for_a) ==
    [j \in 1..Len(b_for_a) |->
        ChainDB(DictGet(adict, b_for_a[j][1]), DictGet(bdict, b_for_a[j][2]))]

merge_collections(a, b, target_id) ==
    chain_all(by_id(a, Len(a)), by_id(b, Len(b)),
              match_a(by_id(a, Len(a)), by_id(b, Len(b)), Len(a), target_id))

-----------------------------------------------------------------------------
(* merge_collections called on two collections; within a collection the    *)
(* _id values are distinct                                                 *)

MaxMerge == 2

InferiorIds == <<"", "prop1", "prop2", "prop3">>

SuperiorIds == <<"grant1", "grant2", "grant3", "grant4">>

ForeignKey == "proposal_id"

InferiorDocs ==
    {("_id" :> InferiorIds[j]) @@ ("title" :> "t") : j \in 1..(MaxMerge + 1)}

SuperiorDocs ==
    {("_id" :> SuperiorIds[j]) @@ fk :
        j \in 1..MaxMerge,
        fk \in Opt(ForeignKey, {"prop1", "prop2", "other"})}

\* the lists of up to MaxMerge documents of D with distinct _id
DistinctIdLists(D) ==
    UNION {{l \in [1..n -> D] :
              \A i, j \in 1..n : i # j => l[i]["_id"] # l[j]["_id"]} :
           n \in 0..MaxMerge}

\* one inferior document and MaxMerge + 1 superior documents, each of which
\* references it, references another document or has no foreign key
DuplicateColls ==
    UNION {[a : {<<("_id" :> id) @@ ("title" :> "t")>>},
            b : {[j \in 1..(MaxMerge + 1) |-> ("_id" :> SuperiorIds[j]) @@ fks[j]] :
                    fks \in [1..(MaxMerge + 1) -> Opt(ForeignKey, {id, "other"})]}] :
           id \in {"", "prop1"}}

InitMerge ==
    /\ pc = "call"
    /\ args = [target_id |-> ForeignKey]
    /\ people = <<>>
    /\ coll \in [a : DistinctIdLists(InferiorDocs), b : DistinctIdLists(SuperiorDocs)]
                 \cup DuplicateColls
    /\ ret = NoRet

CallMergeCollections ==
    /\ pc = "call"
    /\ ret' = Ok(merge_collections(coll.a, coll.b, args.target_id))
    /\ pc' = "merge_collections"
    /\ UNCHANGED <<args, people, coll>>

NextMerge == CallMergeCollections

SpecMerge == InitMerge /\ [][NextMerge]_vars

\* a superior document that has the foreign key, with the value of a's _id
References(b, a) == Has(b, args.target_id) /\ b[args.target_id] = a["_id"]

\* C4: merge_collections is an inner join on the foreign key: the output
\* holds exactly one ChainDB(a, b) for each inferior a that some superior b
\* references through a foreign-key field that is present, nothing for any
\* other inferior document, and every output pairs an inferior document
\* with a superior document that references it.
C4_InnerJoin ==
    pc = "merge_collections" =>
        /\ \A n \in 1..Len(coll.a) :
              Cardinality({j \in 1..Len(ret.ok) : ret.ok[j].inferior = coll.a[n]})
                = IF \E m \in 1..Len(coll.b) : References(coll.b[m], coll.a[n])
                  THEN 1 ELSE 0
        /\ \A j \in 1..Len(ret.ok) :
              \E n \in 1..Len(coll.a), m \in 1..Len(coll.b) :
                 /\ ret.ok[j] = ChainDB(coll.a[n], coll.b[m])
                 /\ References(coll.b[m], coll.a[n])

-----------------------------------------------------------------------------
(* regolith/tools.py: filter_patents, filter_licenses.  A patent document   *)
(* holds a status, a type, a list of inventor names and a list of events;   *)
(* an event always holds a year and a month (ints), and may hold a day and  *)
(* an amount.  The documents of patentscoll are shared with the caller.     *)

\* x in s, for two strs: x is a substring of s
StrIn(x, s) ==
    \E off \in 0..(Len(s) - Len(x)) : SubSeq(s, off + 1, off + Len(x)) = x

S_patent == <<"p", "a", "t", "e", "n", "t">>

S_license == <<"l", "i", "c", "e", "n", "s", "e">>

RECURSIVE sorted_idx(_, _, _)
\* sorted(..., key=, reverse=) on the first n items, as the positions of the
\* items; keys are ints, and items of equal keys keep their order in the list
sorted_idx(keys, n, reverse) ==
    IF n = 0 THEN <<>>
    ELSE LET Ins(done) ==
                 LET j == Cardinality({q \in 1..Len(done) :
                                IF reverse THEN keys[done[q]] >= keys[n]
                                ELSE keys[done[q]] <= keys[n]})
                 IN  SubSeq(done, 1, j) \o <<n>> \o SubSeq(done, j + 1, Len(done))
         IN  Ins(sorted_idx(keys, n - 1, reverse))

sorted(items, keys, reverse) ==
    LET At(idx) == [j \in 1..Len(idx) |-> items[idx[j]]]
    IN  At(sorted_idx(keys, Len(items), reverse))

\* the date of an event: day defaults to 28 where since is given, and is 28
\* where it is not
event_date(event, since) ==
    date(event["year"], event["month"],
         IF since # None THEN Get(event, "day", 28) ELSE 28)

\* events = [event for event in i["events"] if date(...) > since], or all of
\* them without since; then sorted by date
filter_events(evs, since) ==
    LET dates == [j \in 1..Len(evs) |-> event_date(evs[j], since)]
        Late(j) == since = None \/ DateLT(since, dates[j].ok)
        Pick(idx) == sorted([j \in 1..Len(idx) |-> evs[idx[j]]],
                            [j \in 1..Len(idx) |-> ToOrdinal(dates[idx[j]].ok)],
                            FALSE)
    IN  IF \E j \in 1..Len(evs) : IsRaise(dates[j]) THEN Raise("ValueError")
        ELSE Ok(Pick(SelectSeq([j \in 1..Len(evs) |-> j], Late)))

RECURSIVE sum_amounts(_, _)
\* sum([event.get("amount") for event in events]) over the first n events
sum_amounts(evs, n) ==
    IF n = 0 THEN Ok(0)
    ELSE LET Add(s) == IF IsRaise(s) \/ ~Has(evs[n], "amount")
                       THEN Raise("TypeError")
                       ELSE Ok(s.ok + evs[n]["amount"])
         IN  Add(sum_amounts(evs, n - 1))

\* the body of "for i in patentscoll" for the document at position n.
\* kind is "patent" or "license"; with_total is TRUE in filter_licenses, whose
\* body differs from that of filter_patents by the two total lines.
ip_step(st, n, ppl, target, since, today, kind, with_total) ==
    LET i == st.coll[n]
        Fail(e, i2) == [st EXCEPT !.coll[n] = i2, !.err = e]
        Append_i(i2, events) ==
            IF IsRaise(events) THEN Fail(events, i2)
            ELSE [st EXCEPT !.coll[n] = Put(i2, "events", events.ok),
                            !.out = Append(st.out, n)]
        Total(i2, total) ==
            IF IsRaise(total) THEN Fail(total, i2)
            ELSE Append_i(Put(i2, "total_amount", total.ok),
                          filter_events(i2["events"], since))
        Normed(norm) ==
            IF IsRaise(norm) THEN Fail(norm, i)
            ELSE IF with_total
                 THEN Total(norm.ok, sum_amounts(i["events"], Len(i["events"])))
            ELSE Append_i(norm.ok, filter_events(i["events"], since))
        Dated(end_date) ==
            IF IsRaise(end_date) THEN Fail(end_date, i)
            ELSE IF since # None
                 THEN IF DateLE(since, end_date.ok) THEN Normed(normalize_month(i))
                      ELSE st
            \* line 548 reads events before any assignment to it
            ELSE IF with_total THEN Fail(Raise("UnboundLocalError"), i)
            ELSE Append_i(i, filter_events(i["events"], since))
        Found(inventors, person) ==
            IF \A j \in 1..Len(inventors) : inventors[j] # person THEN st
            ELSE Dated(date(IF Get(i, "end_year", 0) # 0 THEN i["end_year"]
                            ELSE today.year,
                            Get(i, "end_month", 12), Get(i, "end_day", 28)))
    IN  IF Get(i, "status", "") \notin {"active", "pending"} THEN st
        ELSE IF ~Has(i, "type") THEN Fail(Raise("TypeError"), i)
        ELSE IF ~StrIn(i["type"], kind) THEN st
        ELSE IF ~Has(i, "inventors") THEN Fail(Raise("KeyError"), i)
        ELSE Found([j \in 1..Len(i["inventors"]) |->
                       fuzzy_retrieval(ppl, NameSources, i["inventors"][j], FALSE)],
                   fuzzy_retrieval(ppl, NameSources, target, FALSE))

RECURSIVE ip_loop(_, _, _, _, _, _, _, _)
ip_loop(st, n, ppl, target, since, today, kind, with_total) ==
    IF n > Len(st.coll) \/ st.err # NoRet THEN st
    ELSE ip_loop(ip_step(st, n, ppl, target, since, today, kind, with_total),
                 n + 1, ppl, target, since, today, kind, with_total)

\* the collection as the call leaves it and the list returned, which holds
\* the documents of the collection themselves
ReturnedDocs(st) ==
    [coll |-> st.coll,
     ret |-> IF st.err # NoRet THEN st.err
             ELSE Ok([j \in 1..Len(st.out) |-> st.coll[st.out[j]]])]

filter_patents(patentscoll, ppl, target, since, today) ==
    ReturnedDocs(ip_loop([coll |-> patentscoll, out |-> <<>>, err |-> NoRet],
                         1, ppl, target, since, today, S_patent, FALSE))

filter_licenses(patentscoll, ppl, target, since, today) ==
    ReturnedDocs(ip_loop([coll |-> patentscoll, out |-> <<>>, err |-> NoRet],
                         1, ppl, target, since, today, S_license, TRUE))

-----------------------------------------------------------------------------
(* filter_patents and filter_licenses called on a collection               *)

MaxIP == 2

MaxEvents == 2

IPPeople ==
    << ("_id" :> PStr(S_jd)) @@ ("name" :> PStr(S_Jane)),
       ("_id" :> PStr(S_Bob)) >>

\* the window opens on the first day of MaxYear
SinceInputs == {None, Date(MaxYear, 1, 1)}

\* events before, on and after that day, two of them in one month
EventInputs ==
    { [year |-> MaxYear - 1, month |-> 6, amount |-> 1],
      [year |-> MaxYear, month |-> 1, day |-> 1, amount |-> 2],
      [year |-> MaxYear, month |-> 3, day |-> 5, amount |-> 4],
      [year |-> MaxYear, month |-> 3, day |-> 2, amount |-> 8] }

OneEvent == <<[year |-> MaxYear, month |-> 3, day |-> 5, amount |-> 4]>>

S_pat == <<"p", "a", "t">>

S_lic == <<"l", "i", "c">>

IPDoc(status, type, inventors, events) ==
    ("status" :> status) @@ type @@ ("inventors" :> inventors)
        @@ ("events" :> events)

\* documents that differ in what the status, type and inventor gates read
GateDocs ==
    {IPDoc(status, type, inventors, OneEvent) :
        status \in {"active", "pending", "expired"},
        type \in Opt("type", {S_patent, S_license, S_pat, S_lic, <<>>}),
        inventors \in {<<PStr(S_jane)>>, <<PStr(S_bad), PStr(S_Bob)>>,
                       <<PStr(S_bad)>>}}

\* documents that pass those gates and differ in their dates and events
EventDocs ==
    {IPDoc("active", ("type" :> type), <<PStr(S_jane)>>, OneEvent)
         @@ end_year @@ month :
        type \in {S_patent, S_license},
        end_year \in Opt("end_year", {MaxYear - 1}),
        month \in Opt("month", {PInt(9)}) \cup Opt("begin_month", {PStr(S_Feb)})}
    \cup
    {IPDoc("active", ("type" :> type), <<PStr(S_jane)>>, events) :
        type \in {S_patent, S_license},
        events \in UNION {[1..n -> EventInputs] : n \in 0..MaxEvents}}

FewIPDocs ==
    {IPDoc(status, ("type" :> type), <<PStr(S_jane)>>, OneEvent) :
        status \in {"active", "expired"}, type \in {S_patent, S_license}}

\* the documents of a collection have the ids ip1, ip2, ...
WithIds(docs) ==
    [j \in 1..Len(docs) |-> Put(docs[j], "_id", <<"i", "p">> \o StrInt(j))]

IPColls ==
    {WithIds(docs) :
        docs \in [1..1 -> GateDocs \cup EventDocs]
                 \cup UNION {[1..n -> FewIPDocs] : n \in 0..MaxIP}}

InitIP ==
    /\ pc = "call"
    /\ args \in [target : {PStr(S_JANE), PStr(S_Bob), PStr(S_num3), None},
                 since : SinceInputs, today : TodayInputs]
    /\ people \in {<<>>, IPPeople}
    /\ coll \in IPColls
    /\ ret = NoRet

IPCall(fn, r) ==
    /\ pc = "call"
    /\ pc' = fn
    /\ coll' = r.coll
    /\ ret' = r.ret
    /\ UNCHANGED <<args, people>>

CallFilterPatents ==
    IPCall("filter_patents",
           filter_patents(coll, people, args.target, args.since, args.today))

CallFilterLicenses ==
    IPCall("filter_licenses",
           filter_licenses(coll, people, args.target, args.since, args.today))

NextIP == CallFilterPatents \/ CallFilterLicenses

SpecIP == InitIP /\ [][NextIP]_vars

\* C8: every document returned by filter_patents has a status in {active,
\* pending} and the type "patent", every document returned by
\* filter_licenses a status in {active, pending} and the type "license"; a
\* document of any other type (the empty string, "pat", "lic") is never
\* returned.
C8_StatusAndExactType ==
    (pc \in {"filter_patents", "filter_licenses"} /\ IsOk(ret)) =>
        \A j \in 1..Len(ret.ok) :
            /\ ret.ok[j]["status"] \in {"active", "pending"}
            /\ ret.ok[j]["type"] = IF pc = "filter_patents" THEN S_patent
                                   ELSE S_license

\* the date of an event as the window reads it
C7_EventDate(event) == Date(event["year"], event["month"], Get(event, "day", 28))

\* the number of times e occurs in the list
C7_Count(events, e) == Cardinality({j \in 1..Len(events) : events[j] = e})

\* the events of the list that fall within the window opened by since
C7_InWindow(events, since) ==
    LET In(e) == since = None \/ DateLE(since, C7_EventDate(e))
    IN  SelectSeq(events, In)

\* a license that passes the status, type and inventor gates
C7_PassesGates(i, ppl, target) ==
    /\ Get(i, "status", "") \in {"active", "pending"}
    /\ Get(i, "type", <<>>) = S_license
    /\ \E j \in 1..Len(i["inventors"]) :
          fuzzy_retrieval(ppl, NameSources, i["inventors"][j], FALSE)
              = fuzzy_retrieval(ppl, NameSources, target, FALSE)

\* C7: a call of filter_licenses returns normally; every license returned
\* holds the events of the input license that fall within the window (all of
\* them without since), in ascending order of date, and a total_amount equal
\* to the sum of the amounts of the events it holds; without since every
\* license that passes the status, type and inventor gates is returned.
C7_EventsAndTotal ==
    [][pc' = "filter_licenses" =>
          /\ IsOk(ret')
          /\ \A j \in 1..Len(ret'.ok) : \E n \in 1..Len(coll) :
                LET r == ret'.ok[j]
                    window == C7_InWindow(coll[n]["events"], args.since)
                IN  /\ r["_id"] = coll[n]["_id"]
                    /\ Len(r["events"]) = Len(window)
                    /\ \A e \in EventInputs :
                          C7_Count(r["events"], e) = C7_Count(window, e)
                    /\ \A a, b \in 1..Len(r["events"]) :
                          a < b => DateLE(C7_EventDate(r["events"][a]),
                                          C7_EventDate(r["events"][b]))
                    /\ Ok(r["total_amount"])
                          = sum_amounts(r["events"], Len(r["events"]))
          /\ args.since = None =>
                \A n \in 1..Len(coll) :
                    C7_PassesGates(coll[n], people, args.target) =>
                        \E j \in 1..Len(ret'.ok) :
                            ret'.ok[j]["_id"] = coll[n]["_id"]
      ]_vars

-----------------------------------------------------------------------------
(* regolith/tools.py: filter_publications.  Author and editor names are     *)
(* strs, authors is a set of strs; year and day are ints, month is an int   *)
(* or a str.  A publication is deep-copied before it is changed, so the     *)
(* caller's citations stay as they are.                                     *)

\* date_to_float with the day divided by 1000: y + m/100 + d/1000
date_to_float_day_by_1000(y, m, d) ==
    LET Float(mi) == IF IsRaise(mi) THEN mi
                     ELSE Ok(y * 10000 + mi.ok * 100 + d * 10)
    IN  Float(month_to_int(m))

\* date_to_float(y, m, d) = y + m/100 + d/10000, here times 10000
date_to_float(y, m, d) ==
    LET Float(mi) == IF IsRaise(mi) THEN mi ELSE Ok(y * 10000 + mi.ok * 100 + d)
    IN  Float(month_to_int(m))

\* sorters.doc_date_key: the float date of the document's year and month
doc_date_key(document) ==
    date_to_float(Get(document, "year", 1970), Get(document, "month", PStr(S_jan)), 0)

\* the items of a list, as a set
Elems(l) == {l[j] : j \in 1..Len(l)}

\* "\\textbf{" + a + "}"
textbf(a) == <<"\\", "t", "e", "x", "t", "b", "f", "{">> \o a \o <<"}">>

\* the exception of the first item of a list of results that is one
FirstRaise(rs) ==
    rs[CHOOSE j \in 1..Len(rs) :
          IsRaise(rs[j]) /\ \A k \in 1..(j - 1) : ~IsRaise(rs[k])]

\* the sort of a list of documents by a key that may raise
sort_docs(docs, keys, reverse) ==
    IF \E j \in 1..Len(keys) : IsRaise(keys[j]) THEN FirstRaise(keys)
    ELSE Ok(sorted(docs, [j \in 1..Len(keys) |-> keys[j].ok], reverse))

\* lines 270-275: bibdate > since, and bibdate < before where before is given
pub_in_window(bibdate, since, before) ==
    /\ DateLT(since, bibdate)
    /\ before # None => DateLT(bibdate, before)

\* the body of "for pub in citations" for the publication at position n;
\* st.pubs is the list built, st.err the exception
pub_step(st, citations, n, authors, bold, since, before) ==
    LET pub == citations[n]
        Fail(e) == [st EXCEPT !.err = e]
        Keep(p2) == [st EXCEPT !.pubs = Append(st.pubs, p2)]
        Dated(p2, bibdate) ==
            IF IsRaise(bibdate) THEN Fail(bibdate)
            ELSE IF pub_in_window(bibdate.ok, since, before) THEN Keep(p2)
            ELSE st
        Month(p2, mi) ==
            IF IsRaise(mi) THEN Fail(mi)
            ELSE Dated(p2, date(pub["year"], mi.ok, Get(pub, "day", 28)))
        Gate(p2) ==
            IF since = None THEN Keep(p2)
            ELSE IF ~Has(pub, "year") THEN Fail(Raise("TypeError"))
            ELSE Month(p2, month_to_int(Get(pub, "month", PInt(12))))
    IN  IF (Elems(Get(pub, "author", <<>>)) \cup Elems(Get(pub, "editor", <<>>)))
               \cap authors = {}
        THEN st
        ELSE IF ~bold THEN Gate(pub)
        ELSE IF ~Has(pub, "author") THEN Fail(Raise("KeyError"))
        ELSE Gate(Put(pub, "author",
                      [j \in 1..Len(pub["author"]) |->
                          IF pub["author"][j] \in authors
                          THEN textbf(pub["author"][j]) ELSE pub["author"][j]]))

RECURSIVE pub_loop(_, _, _, _, _, _, _)
pub_loop(st, citations, n, authors, bold, since, before) ==
    IF n > Len(citations) \/ st.err # NoRet THEN st
    ELSE pub_loop(pub_step(st, citations, n, authors, bold, since, before),
                  citations, n + 1, authors, bold, since, before)

filter_publications(citations, authors, reverse, bold, since, before) ==
    LET Sorted(st) ==
            IF st.err # NoRet THEN st.err
            ELSE sort_docs(st.pubs,
                           [j \in 1..Len(st.pubs) |-> doc_date_key(st.pubs[j])],
                           reverse)
    IN  Sorted(pub_loop([pubs |-> <<>>, err |-> NoRet], citations, 1, authors,
                        bold, since, before))

-----------------------------------------------------------------------------
(* regolith/tools.py: filter_presentations, number_suffix.  A presentation  *)
(* always holds authors (a str or a list of strs), status, type,            *)
(* begin_year, begin_month (an int or a str) and begin_day (an int); it may *)
(* hold end_day, institution and department.  The presentations are         *)
(* deep-copied on entry.                                                    *)

S_member == <<"s", "b", "i", "l", "l", "i", "n", "g", "e">>

\* number_suffix of an int
number_suffix(number) ==
    IF 10 < number /\ number < 20 THEN "th"
    ELSE CASE number % 10 = 1 -> "st"
           [] number % 10 = 2 -> "nd"
           [] number % 10 = 3 -> "rd"
           [] OTHER -> "th"

\* number_suffix(pres.get(day, None)): None is not a number
day_suffix(pres, day) ==
    IF Has(pres, day) THEN number_suffix(pres[day]) ELSE ""

\* pauthors: a str is wrapped in a list
pauthors_of(pres) ==
    IF IsPStr(pres["authors"]) THEN <<pres["authors"]>> ELSE pres["authors"].list

\* lines 643-660: the member is among the ids of the resolved authors
member_is_author(pres, ppl) ==
    LET Ids(authors) == [j \in 1..Len(authors) |-> authors[j]["_id"]]
        NotNone(a) == a # None
        Resolved(pauthors) ==
            SelectSeq([j \in 1..Len(pauthors) |->
                          fuzzy_retrieval(ppl, NameSources, pauthors[j], FALSE)],
                      NotNone)
    IN  PyIn(PStr(S_member), Ids(Resolved(pauthors_of(pres))))

\* presdate of lines 673-675 and 682-684
presdate(pres) ==
    LET Of(mi) == IF IsRaise(mi) THEN mi
                  ELSE date(pres["begin_year"], mi.ok, pres["begin_day"])
    IN  Of(month_to_int(pres["begin_month"]))

\* lines 671-679: the presentations dated after since
since_stage(thirdclean, since) ==
    LET InStage(pres) == DateLT(since, presdate(pres).ok)
        dates == [j \in 1..Len(thirdclean) |-> presdate(thirdclean[j])]
    IN  IF since = None THEN Ok(thirdclean)
        ELSE IF \E j \in 1..Len(dates) : IsRaise(dates[j]) THEN FirstRaise(dates)
        ELSE Ok(SelectSeq(thirdclean, InStage))

\* lines 680-688: the presentations dated before before
before_stage(fourthclean, before) ==
    LET InStage(pres) == DateLT(presdate(pres).ok, before)
        Dates(l) == [j \in 1..Len(l) |-> presdate(l[j])]
        Of(l, dates) ==
            IF \E j \in 1..Len(dates) : IsRaise(dates[j]) THEN FirstRaise(dates)
            ELSE Ok(SelectSeq(l, InStage))
    IN  IF IsRaise(fourthclean) \/ before = None THEN fourthclean
        ELSE Of(fourthclean.ok, Dates(fourthclean.ok))

RECURSIVE join(_, _)
\* ", ".join(names) from position k on; an item that is not a str raises
join(names, k) ==
    LET Rest(rest) ==
            IF IsRaise(rest) \/ ~IsPStr(names[k]) THEN Raise("TypeError")
            ELSE Ok(names[k].str
                    \o (IF k < Len(names) THEN <<",", " ">> ELSE <<>>) \o rest.ok)
    IN  IF k > Len(names) THEN Ok(<<>>) ELSE Rest(join(names, k + 1))

\* int(pres["begin_month"])
int_of(v) ==
    IF IsPInt(v) THEN Ok(v.int)
    ELSE IF IsNumeric(v.str) THEN Ok(DigitsVal(v.str))
    ELSE Raise("ValueError")

\* lines 724-761: the institution and the department of a presentation
resolve_institution(pres, institutions) ==
    LET Dept(inst) ==
            IF Has(inst, "departments")
               /\ pres["department"] \in DOMAIN inst["departments"]
            THEN Ok(Put(Put(pres, "institution", inst), "department",
                        inst["departments"][pres["department"]]))
            \* the warning printed reads pres["institution"]["_id"]
            ELSE IF ~Has(inst, "_id") THEN Raise("KeyError")
            ELSE Ok(Put(Put(pres, "institution", inst), "department",
                        [name |-> pres["department"]]))
        Found(inst) ==
            IF inst = None THEN Raise("SystemExit")
            ELSE IF Has(pres, "department") THEN Dept(inst)
            ELSE Ok(Put(pres, "institution", inst))
    IN  IF ~Has(pres, "institution") THEN Ok(pres)
        ELSE Found(fuzzy_retrieval(institutions, NameSources,
                                   pres["institution"], FALSE))

\* lines 691-761: the body of "for pres in presclean"
build_pres(pres, ppl, institutions) ==
    LET Name(author, person) ==
            IF person = None THEN Ok(author)
            ELSE IF Has(person, "name") THEN Ok(person["name"])
            ELSE Raise("KeyError")
        Names(pauthors) ==
            [j \in 1..Len(pauthors) |->
                Name(pauthors[j],
                     fuzzy_retrieval(ppl, NameSources, pauthors[j], FALSE))]
        Suffixed(p2) ==
            Put(Put(p2, "begin_day_suffix", day_suffix(pres, "begin_day")),
                "end_day_suffix", day_suffix(pres, "end_day"))
        Dated(authorlist, month, d) ==
            IF IsRaise(d) THEN d
            ELSE resolve_institution(
                     Suffixed(Put(Put(Put(pres, "authors", PStr(authorlist)),
                                      "begin_month", PInt(month)),
                                  "date", d.ok)),
                     institutions)
        Month(authorlist, month) ==
            IF IsRaise(month) THEN month
            ELSE Dated(authorlist, month.ok,
                       date(pres["begin_year"], month.ok, pres["begin_day"]))
        Joined(authorlist) ==
            IF IsRaise(authorlist) THEN authorlist
            ELSE Month(authorlist.ok, int_of(pres["begin_month"]))
        Listed(names) ==
            IF \E j \in 1..Len(names) : IsRaise(names[j]) THEN FirstRaise(names)
            ELSE Joined(join([j \in 1..Len(names) |-> names[j].ok], 1))
    IN  Listed(Names(pauthors_of(pres)))

filter_presentations(ppl, presentations, institutions, types, since, before, statuses) ==
    LET First(pres) == member_is_author(pres, ppl)
        Second(pres) == pres["status"] \in Elems(statuses)
                        \/ "all" \in Elems(statuses)
        Third(pres) == pres["type"] \in Elems(types) \/ "all" \in Elems(types)
        Key(pres) == ToOrdinal(pres["date"])
        Sort(built) ==
            IF \E j \in 1..Len(built) : IsRaise(built[j]) THEN FirstRaise(built)
            ELSE Ok(sorted([j \in 1..Len(built) |-> built[j].ok],
                           [j \in 1..Len(built) |-> Key(built[j].ok)], TRUE))
        Build(presclean) ==
            IF IsRaise(presclean) THEN presclean
            ELSE Sort([j \in 1..Len(presclean.ok) |->
                          build_pres(presclean.ok[j], ppl, institutions)])
    IN  Build(before_stage(
                  since_stage(SelectSeq(SelectSeq(SelectSeq(presentations, First),
                                                  Second), Third),
                              since),
                  before))

-----------------------------------------------------------------------------
(* filter_publications and filter_presentations called on a collection.    *)
(* args holds the arguments of the one call that is made: those of          *)
(* filter_publications (authors, ...) or those of filter_presentations      *)
(* (institutions, types, ...).                                              *)

MaxPubs == 2

MaxPres == 2

\* the window is the first fifteen days of MaxYear
BeforeInputs == {None, Date(MaxYear, 1, 15)}

\* dates before, on and after each end of the window: year, optional month
\* (12 when omitted) and optional day (28 when omitted)
PubDateParts ==
    {("year" :> y) @@ month @@ day :
        y \in {MaxYear - 1, MaxYear},
        month \in Opt("month", {PInt(1), PStr(S_Feb)}),
        day \in Opt("day", {1, 10, 15})}

PubNameParts ==
    {author @@ editor :
        author \in Opt("author", {<<S_jd>>, <<S_bad, S_jd>>, <<S_bad>>}),
        editor \in Opt("editor", {<<S_Bob>>, <<S_jd, S_Bob>>})}

FewPubs ==
    {("author" :> <<S_jd>>) @@ ("year" :> MaxYear) @@ ("month" :> m)
         @@ ("day" :> 10) : m \in {PInt(1), PStr(S_Feb), PInt(3)}}

PubColls ==
    {WithIds(docs) :
        docs \in [1..1 -> {("author" :> <<S_jd>>) @@ d : d \in PubDateParts}
                          \cup {n @@ ("year" :> MaxYear) @@ ("month" :> PInt(1))
                                  @@ ("day" :> 10) : n \in PubNameParts}]
                 \cup UNION {[1..n -> FewPubs] : n \in 0..MaxPubs}}

PubArgs ==
    [authors : {{S_jd}, {S_jd, S_Bob}}, reverse : BOOLEAN, bold : BOOLEAN,
     since : SinceInputs, before : BeforeInputs]

S_Simon == <<"S", "i", "m", "o", "n">>

S_sb == <<"s", "b">>

S_cu == <<"c", "u">>

S_MIT == <<"M", "I", "T">>

S_mit == <<"m", "i", "t">>

\* the member with a name and an alias, a second person, and a person
\* without a name
PresPeople ==
    << ("_id" :> PStr(S_member)) @@ ("name" :> PStr(S_Simon))
           @@ ("aka" :> PList(<<PStr(S_sb)>>)),
       ("_id" :> PStr(S_jd)) @@ ("name" :> PStr(S_Jane)),
       ("_id" :> PStr(S_Bob)) >>

\* an institution with a department, and one known by its name only
Institutions ==
    << ("_id" :> PStr(S_cu))
           @@ ("departments" :> ("apam" :> [name |-> "Applied Physics"])),
       ("name" :> PStr(S_MIT)) >>

Pres(authors, status, type, month, day) ==
    ("authors" :> authors) @@ ("status" :> status) @@ ("type" :> type)
        @@ ("begin_year" :> MaxYear) @@ ("begin_month" :> month)
        @@ ("begin_day" :> day)

PresInputs ==
    {Pres(authors, status, type, PInt(1), 10) :
        authors \in {PStr(S_member), PList(<<PStr(S_jane), PStr(S_sb)>>),
                     PList(<<PStr(S_jane)>>), PList(<<PStr(S_Bob), PStr(S_sb)>>),
                     PList(<<PStr(S_bad), PStr(S_member)>>)},
        status \in {"accepted", "declined"}, type \in {"invited", "poster"}}
    \cup
    {Pres(PStr(S_member), "accepted", "invited", month, day) @@ end_day :
        month \in {PInt(1), PStr(S_Feb), PStr(S_num3)}, day \in {1, 10, 15},
        end_day \in Opt("end_day", {12})}
    \cup
    {Pres(PStr(S_member), "accepted", "invited", month, 10)
         @@ ("institution" :> institution) @@ department :
        month \in {PInt(1), PStr(S_Feb)},
        institution \in {PStr(S_cu), PStr(S_mit), PStr(S_bad)},
        department \in Opt("department", {"apam", "physics"})}

FewPres ==
    {Pres(PStr(S_member), "accepted", type, PInt(1), day) :
        type \in {"invited", "poster"}, day \in {10, 15}}

PresColls ==
    {WithIds(docs) :
        docs \in [1..1 -> PresInputs] \cup UNION {[1..n -> FewPres] : n \in 0..MaxPres}}

PresArgs ==
    [institutions : {Institutions}, types : {<<"all">>, <<"invited">>},
     statuses : {<<"accepted">>, <<"accepted", "all">>},
     since : SinceInputs, before : BeforeInputs]

InitDocs ==
    /\ pc = "call"
    /\ \/ args \in PubArgs /\ coll \in PubColls /\ people = <<>>
       \/ args \in PresArgs /\ coll \in PresColls /\ people = PresPeople
    /\ ret = NoRet

DocsCall(fn, r) ==
    /\ pc = "call"
    /\ pc' = fn
    /\ ret' = r
    /\ UNCHANGED <<args, people, coll>>

CallFilterPublications ==
    /\ "authors" \in DOMAIN args
    /\ DocsCall("filter_publications",
                filter_publications(coll, args.authors, args.reverse, args.bold,
                                    args.since, args.before))

CallFilterPresentations ==
    /\ "institutions" \in DOMAIN args
    /\ DocsCall("filter_presentations",
                filter_presentations(people, coll, args.institutions, args.types,
                                     args.since, args.before, args.statuses))

NextDocs == CallFilterPublications \/ CallFilterPresentations

SpecDocs == InitDocs /\ [][NextDocs]_vars

\* a publication whose author list or editor list holds a target identity
C5_Relevant(pub) ==
    (Elems(Get(pub, "author", <<>>)) \cup Elems(Get(pub, "editor", <<>>)))
        \cap args.authors # {}

\* the effective date of a publication: month 12 and day 28 when omitted
C5_PubDate(pub) ==
    date(pub["year"], month_to_int(Get(pub, "month", PInt(12))).ok,
         Get(pub, "day", 28))

\* since <= d where since is given, and d <= before where before is given
C5_InWindow(d) ==
    /\ args.since # None => IsOk(d) /\ DateLE(args.since, d.ok)
    /\ args.before # None => IsOk(d) /\ DateLE(d.ok, args.before)

\* the document is one of those returned
C5_Returned(doc) == \E j \in 1..Len(ret.ok) : ret.ok[j]["_id"] = doc["_id"]

\* a presentation that passes the member, status and type gates
C5_PassesGates(pres) ==
    /\ member_is_author(pres, people)
    /\ pres["status"] \in Elems(args.statuses) \/ "all" \in Elems(args.statuses)
    /\ pres["type"] \in Elems(args.types) \/ "all" \in Elems(args.types)

\* C5: a call of filter_publications or filter_presentations that returns
\* keeps a document that passes the other gates if and only if its effective
\* date d satisfies since <= d where since is given and d <= before where
\* before is given; with neither bound every such document is kept.
C5_InclusiveWindow ==
    /\ (pc = "filter_publications" /\ IsOk(ret)) =>
          \A n \in 1..Len(coll) :
              C5_Returned(coll[n])
                  <=> (C5_Relevant(coll[n]) /\ C5_InWindow(C5_PubDate(coll[n])))
    /\ (pc = "filter_presentations" /\ IsOk(ret)) =>
          \A n \in 1..Len(coll) :
              C5_Returned(coll[n])
                  <=> (C5_PassesGates(coll[n]) /\ C5_InWindow(presdate(coll[n])))

\* the author list with every target name in \textbf{}
C9_Bolded(author) ==
    [j \in 1..Len(author) |->
        IF author[j] \in args.authors THEN textbf(author[j]) ELSE author[j]]

\* C9: without date bounds filter_publications returns a copy of exactly the
\* publications whose author list or editor list holds a target identity,
\* one matched through its editor list only included; with bold every
\* author name of the target set is wrapped in \textbf{} and every other
\* name is as it was.
C9_RelevanceAndBold ==
    (pc = "filter_publications" /\ args.since = None /\ args.before = None) =>
        /\ IsOk(ret)
        /\ Len(ret.ok) = Cardinality({n \in 1..Len(coll) : C5_Relevant(coll[n])})
        /\ \A n \in 1..Len(coll) :
              C5_Relevant(coll[n]) =>
                  \E j \in 1..Len(ret.ok) :
                      ret.ok[j] = IF args.bold /\ Has(coll[n], "author")
                                  THEN Put(coll[n], "author",
                                           C9_Bolded(coll[n]["author"]))
                                  ELSE coll[n]

-----------------------------------------------------------------------------
(* regolith/tools.py: filter_grants.  A grant holds a team (a list of       *)
(* members with a name, a position and maybe a subaward_amount), an amount  *)
(* and an end date; names is a set of strs.  A grant is deep-copied before  *)
(* it is changed.  The totals start at 0.0 and are kept here as ints.       *)

S_pi == <<"p", "i">>

\* sorters.ene_date_key: the float date of the end of the grant
ene_date_key(grant) ==
    date_to_float(Get(grant, "end_year", 0), Get(grant, "end_month", PInt(0)),
                  Get(grant, "end_day", 0))

\* set(gets(grant["team"], "name")) & names: a member without a name gives
\* None, which is no name of the set
team_names(team, names) ==
    {team[j]["name"] : j \in {k \in 1..Len(team) : Has(team[k], "name")}} \cap names

\* the position test without lower()
is_pi_position_as_is(person) == person["position"] = S_pi

\* person["position"].lower() == "pi"
is_pi(person) == Lower(person["position"]) = S_pi

\* the body of "for grant in input_grants" for the grant at position n;
\* st.grants is the list built, st.err the exception
grant_step(st, input_grants, n, names, pi, multi_pi) ==
    LET grant == input_grants[n]
        team == grant["team"]
        Fail(e) == [st EXCEPT !.err = Raise(e)]
        Named(x) == x["name"] \in names
        IsPI(x) == is_pi(x)
        Other(person, pis) ==
            IF \E j \in 1..Len(team) : ~Has(team[j], "position") THEN Fail("KeyError")
            ELSE IF pis = <<>> THEN Fail("IndexError")
            ELSE [st EXCEPT
                    !.total_amount = @ + grant["amount"],
                    !.subaward_amount = @ + Get(person, "subaward_amount", 0),
                    !.grants = Append(@,
                        Put(Put(Put(grant, "subaward_amount",
                                    Get(person, "subaward_amount", 0)),
                                "pi", pis[1]),
                            "me", person))]
        Person(person) ==
            IF pi
            THEN IF ~Has(person, "position") THEN Fail("KeyError")
                 ELSE IF ~is_pi(person) THEN st
                 ELSE IF ~Has(grant, "amount") THEN Fail("KeyError")
                 ELSE [st EXCEPT !.total_amount = @ + grant["amount"],
                                 !.grants = Append(@, grant)]
            ELSE IF multi_pi
            THEN [st EXCEPT !.grants = Append(@,
                     Put(Put(grant, "subaward_amount",
                             Get(person, "subaward_amount", 0)),
                         "multi_pi",
                         \E j \in 1..Len(team) :
                             Get(team[j], "subaward_amount", 0) # 0))]
            ELSE IF ~Has(person, "position") THEN Fail("KeyError")
            ELSE IF is_pi(person) THEN st
            ELSE IF ~Has(grant, "amount") THEN Fail("KeyError")
            ELSE Other(person,
                       IF \E j \in 1..Len(team) : ~Has(team[j], "position")
                       THEN <<>> ELSE SelectSeq(team, IsPI))
    IN  IF team_names(team, names) = {} THEN st
        ELSE IF \E j \in 1..Len(team) : ~Has(team[j], "name") THEN Fail("KeyError")
        ELSE Person(SelectSeq(team, Named)[1])

RECURSIVE grant_loop(_, _, _, _, _, _)
grant_loop(st, input_grants, n, names, pi, multi_pi) ==
    IF n > Len(input_grants) \/ st.err # NoRet THEN st
    ELSE grant_loop(grant_step(st, input_grants, n, names, pi, multi_pi),
                    input_grants, n + 1, names, pi, multi_pi)

\* returns grants, total_amount, subaward_amount
filter_grants(input_grants, names, pi, reverse, multi_pi) ==
    LET Tuple(st, grants) ==
            IF IsRaise(grants) THEN grants
            ELSE Ok([grants |-> grants.ok, total_amount |-> st.total_amount,
                     subaward_amount |-> st.subaward_amount])
        Sorted(st) ==
            IF st.err # NoRet THEN st.err
            ELSE Tuple(st, sort_docs(st.grants,
                                     [j \in 1..Len(st.grants) |->
                                         ene_date_key(st.grants[j])],
                                     reverse))
    IN  Sorted(grant_loop([grants |-> <<>>, total_amount |-> 0,
                           subaward_amount |-> 0, err |-> NoRet],
                          input_grants, 1, names, pi, multi_pi))

-----------------------------------------------------------------------------
(* filter_grants called on a collection                                    *)

MaxGrants == 2

MaxTeam == 2

S_PI == <<"P", "I">>

S_copi == <<"c", "o", "-", "p", "i">>

Members ==
    {[name |-> name, position |-> position] :
        name \in {S_jd, S_Bob, S_bad}, position \in {S_PI, S_pi, S_copi}}
    \cup {[name |-> S_jd, position |-> S_copi, subaward_amount |-> 3],
          [name |-> S_Bob, position |-> S_copi, subaward_amount |-> 0]}

Grant(team, amount) ==
    [team |-> team, amount |-> amount, end_year |-> MaxYear,
     end_month |-> PInt(amount)]

\* grants of distinct amounts: jd leads the first and the third, and comes
\* second on the team of the others
FewGrants ==
    { Grant(<<[name |-> S_jd, position |-> S_PI]>>, 1),
      Grant(<<[name |-> S_Bob, position |-> S_pi],
              [name |-> S_jd, position |-> S_copi]>>, 2),
      Grant(<<[name |-> S_jd, position |-> S_pi]>>, 4),
      Grant(<<[name |-> S_bad, position |-> S_PI],
              [name |-> S_jd, position |-> S_copi, subaward_amount |-> 3]>>, 8) }

GrantColls ==
    {WithIds(docs) :
        docs \in {<<Grant(team, 1)>> :
                     team \in UNION {[1..n -> Members] : n \in 0..MaxTeam}}
                 \cup UNION {[1..n -> FewGrants] : n \in 0..MaxGrants}}

InitGrants ==
    /\ pc = "call"
    /\ args \in [names : {{S_jd}, {S_jd, S_Bob}}, pi : BOOLEAN,
                 reverse : BOOLEAN, multi_pi : BOOLEAN]
    /\ people = <<>>
    /\ coll \in GrantColls
    /\ ret = NoRet

CallFilterGrants ==
    /\ pc = "call"
    /\ ret' = filter_grants(coll, args.names, args.pi, args.reverse, args.multi_pi)
    /\ pc' = "filter_grants"
    /\ UNCHANGED <<args, people, coll>>

NextGrants == CallFilterGrants

SpecGrants == InitGrants /\ [][NextGrants]_vars

\* the matched participant: the first team member, in team order, whose
\* name is in names
C10_Matched(grant) ==
    grant["team"][CHOOSE j \in 1..Len(grant["team"]) :
                     /\ grant["team"][j]["name"] \in args.names
                     /\ \A k \in 1..(j - 1) : grant["team"][k]["name"] \notin args.names]

\* a grant with a team member named in names whose matched participant has
\* the position "pi", whatever the case of its letters
C10_Qualifies(grant) ==
    /\ \E j \in 1..Len(grant["team"]) : grant["team"][j]["name"] \in args.names
    /\ SameButCase(C10_Matched(grant)["position"], S_pi)

RECURSIVE C10_Sum(_, _)
\* the sum of amount over the first n grants of the list
C10_Sum(grants, n) ==
    IF n = 0 THEN 0 ELSE C10_Sum(grants, n - 1) + grants[n]["amount"]

\* C10: with pi=True filter_grants returns exactly the input grants that
\* have a team member named in names and whose matched participant has the
\* position "pi" ignoring case; total_amount is the sum of amount over the
\* returned grants, and the subaward total is 0.
C10_PIMode ==
    (pc = "filter_grants" /\ args.pi) =>
        /\ IsOk(ret)
        /\ Len(ret.ok.grants)
              = Cardinality({n \in 1..Len(coll) : C10_Qualifies(coll[n])})
        /\ \A n \in 1..Len(coll) :
              C10_Qualifies(coll[n])
                  <=> \E j \in 1..Len(ret.ok.grants) : ret.ok.grants[j] = coll[n]
        /\ ret.ok.total_amount = C10_Sum(ret.ok.grants, Len(ret.ok.grants))
        /\ ret.ok.subaward_amount = 0

\* of two grants one is returned, whose matched participant is "PI" in
\* capitals, and its amount is the total; the other has a pi on its team but
\* its matched participant is not one
C10_Witness ==
    /\ pc = "filter_grants"
    /\ args.pi
    /\ Len(coll) = 2
    /\ IsOk(ret)
    /\ Len(ret.ok.grants) = 1
    /\ C10_Matched(ret.ok.grants[1])["position"] = S_PI
    /\ ret.ok.total_amount = ret.ok.grants[1]["amount"]
    /\ \E n \in 1..Len(coll) :
          /\ coll[n] # ret.ok.grants[1]
          /\ \E j \in 1..Len(coll[n]["team"]) : coll[n]["team"][j]["position"] = S_pi

-----------------------------------------------------------------------------
(* Claims on is_since and is_before                                        *)

\* the last calendar day of month m of year y
C11_LastDay(y, m) ==
    CASE m = 2 -> IF y % 4 = 0 /\ (y % 100 # 0 \/ y % 400 = 0) THEN 29 ELSE 28
      [] m \in {4, 6, 9, 11} -> 30
      [] OTHER -> 31

\* the target and since dates of an is_since call: month 1 and day 1 where
\* omitted
C11_SinceTarget(a) == Date(a["y"], MonthOf(Get(a, "m", PInt(1))), Get(a, "d", 1))

C11_Since(a) == Date(a["sy"], MonthOf(Get(a, "sm", PInt(1))), Get(a, "sd", 1))

\* the target and before dates of an is_before call: month 12 where
\* omitted, and the last day of the month where the day is omitted
C11_BeforeTarget(a) ==
    Date(a["y"], MonthOf(Get(a, "m", PInt(12))),
         Get(a, "d", C11_LastDay(a["y"], MonthOf(Get(a, "m", PInt(12))))))

C11_Before(a) ==
    Date(a["by"], MonthOf(Get(a, "bm", PInt(12))),
         Get(a, "bd", C11_LastDay(a["by"], MonthOf(Get(a, "bm", PInt(12))))))

-----------------------------------------------------------------------------
(* Claims on the defaults and the errors of the date tools                 *)

\* C12: begin_end_date returns; without begin_day the begin date has day 1,
\* and without end_day the end date has the last calendar day of end_month
\* in end_year, for every year and every month given as an integer or a
\* name.
C12_DayDefaults ==
    pc = "begin_end_date" =>
        /\ IsOk(ret)
        /\ ~Has(args, "begin_day") =>
              ret.ok[1] = Date(args["begin_year"], MonthOf(args["begin_month"]), 1)
        /\ ~Has(args, "end_day") =>
              ret.ok[2] = Date(args["end_year"], MonthOf(args["end_month"]),
                               C11_LastDay(args["end_year"],
                                           MonthOf(args["end_month"])))

\* both days absent, the end month the February of a leap year given by
\* name: the dates returned are the 1st and the 29th
C12_Witness ==
    /\ pc = "begin_end_date"
    /\ ~Has(args, "begin_day") /\ ~Has(args, "end_day")
    /\ IsPStr(args["end_month"]) /\ MonthOf(args["end_month"]) = 2
    /\ IsLeap(args["end_year"])
    /\ IsOk(ret)
    /\ ret.ok[1]["day"] = 1
    /\ ret.ok[2]["day"] = 29

-----------------------------------------------------------------------------
(* month_to_int, date_to_float and begin_end_date called on months in      *)
(* every representation.  args holds two (year, month, day) triples; the    *)
(* first is also the begin date and the second the end date of a document.  *)

\* the full English names of the months
MonthNames ==
    << <<"j", "a", "n", "u", "a", "r", "y">>,
       <<"f", "e", "b", "r", "u", "a", "r", "y">>,
       <<"m", "a", "r", "c", "h">>,
       <<"a", "p", "r", "i", "l">>,
       <<"m", "a", "y">>,
       <<"j", "u", "n", "e">>,
       <<"j", "u", "l", "y">>,
       <<"a", "u", "g", "u", "s", "t">>,
       <<"s", "e", "p", "t", "e", "m", "b", "e", "r">>,
       <<"o", "c", "t", "o", "b", "e", "r">>,
       <<"n", "o", "v", "e", "m", "b", "e", "r">>,
       <<"d", "e", "c", "e", "m", "b", "e", "r">> >>

\* str.upper()
Upper(s) ==
    [j \in 1..Len(s) |->
        IF \E u \in DOMAIN UpperToLower : UpperToLower[u] = s[j]
        THEN CHOOSE u \in DOMAIN UpperToLower : UpperToLower[u] = s[j]
        ELSE s[j]]

\* str.capitalize() of a lower-case str
Capitalize(s) == IF s = <<>> THEN s ELSE Upper(SubSeq(s, 1, 1)) \o Tail(s)

\* the name, the three-letter abbreviation and the abbreviation with a
\* period of month k, in lower case
NameForms(k) ==
    {MonthNames[k], SubSeq(MonthNames[k], 1, 3), SubSeq(MonthNames[k], 1, 3) \o <<".">>}

\* month k as an integer, as a numeric string and by its names in lower
\* case, in capitals and capitalized
MonthReps(k) ==
    {PInt(k), PStr(StrInt(k))}
    \cup UNION {{PStr(f), PStr(Upper(f)), PStr(Capitalize(f))} : f \in NameForms(k)}

\* strs that are neither numeric nor a key of MONTHS
S_janu == <<"j", "a", "n", "u">>

S_poly == <<"m", "a", "y", "-", "j", "u", "n">>

BadMonths == {PStr(S_bad), PStr(S_janu), PStr(S_poly)}

\* days of the sort key: 0..99
FloatDays == {0, 28, 99}

DatesArgs ==
    {("y" :> y) @@ ("m" :> m) @@ ("d" :> d)
         @@ ("y2" :> y2) @@ ("m2" :> m2) @@ ("d2" :> d2)
         @@ ("begin_year" :> y) @@ ("begin_month" :> m)
         @@ ("end_year" :> y2) @@ ("end_month" :> m2) :
        y \in Years, y2 \in Years, d \in FloatDays, d2 \in {1, 28},
        m \in UNION {MonthReps(k) : k \in 1..12} \cup {PStr(<<>>)} \cup BadMonths,
        m2 \in {PInt(k) : k \in 1..12} \cup {PStr(S_bad)}}

InitDates ==
    /\ pc = "call"
    /\ args \in DatesArgs
    /\ people = <<>>
    /\ coll = <<>>
    /\ ret = NoRet

CallMonthToInt ==
    /\ pc = "call"
    /\ ret' = month_to_int(args["m"])
    /\ pc' = "month_to_int"
    /\ UNCHANGED <<args, people, coll>>

\* date_to_float called on each of the two triples
CallDateToFloat ==
    LET Both(k1, k2) == IF IsRaise(k1) THEN k1
                        ELSE IF IsRaise(k2) THEN k2
                        ELSE Ok(<<k1.ok, k2.ok>>)
    IN  /\ pc = "call"
        /\ ret' = Both(date_to_float(args["y"], args["m"], args["d"]),
                       date_to_float(args["y2"], args["m2"], args["d2"]))
        /\ pc' = "date_to_float"
        /\ UNCHANGED <<args, people, coll>>

NextDates == CallMonthToInt \/ CallDateToFloat \/ CallBeginEndDate

SpecDates == InitDates /\ [][NextDates]_vars

\* the representation m denotes month k
C13_Denotes(m, k) ==
    \/ m = PInt(k)
    \/ IsPStr(m) /\ m.str = StrInt(k)
    \/ IsPStr(m) /\ \E f \in NameForms(k) : SameButCase(m.str, f)

\* C13: for each month k of 1..12, the integer k, the numeric string of k,
\* the full name, the three-letter abbreviation and the abbreviation with a
\* period, in any letter case, all yield k; the empty string yields 1.
C13_SameMonthSameInt ==
    pc = "month_to_int" =>
        /\ \A k \in 1..12 : C13_Denotes(args["m"], k) => ret = Ok(k)
        /\ args["m"] = PStr(<<>>) => ret = Ok(1)

\* September by its abbreviation with a period, in capitals
C13_Witness ==
    /\ pc = "month_to_int"
    /\ args["m"] = PStr(<<"S", "E", "P", ".">>)
    /\ ret = Ok(9)

\* the month of 1..12 a valid representation denotes
C14_Valid(m) == \E k \in 1..12 : C13_Denotes(m, k)

C14_Month(m) == CHOOSE k \in 1..12 : C13_Denotes(m, k)

\* (y1, m1, d1) precedes (y2, m2, d2) lexicographically
C14_Precedes(a, b) ==
    \/ a[1] < b[1]
    \/ a[1] = b[1] /\ a[2] < b[2]
    \/ a[1] = b[1] /\ a[2] = b[2] /\ a[3] < b[3]

\* C14: for triples with a month of 1..12 (integer or name) and a day of
\* 0..99 the key is 10000*year + 100*month + day (the float times 10000);
\* the key of one triple is strictly smaller than that of another exactly
\* when the first precedes the second lexicographically, and two distinct
\* triples never get equal keys.
C14_KeyOrdersLexicographically ==
    (pc = "date_to_float" /\ C14_Valid(args["m"]) /\ C14_Valid(args["m2"])) =>
        LET t1 == <<args["y"], C14_Month(args["m"]), args["d"]>>
            t2 == <<args["y2"], C14_Month(args["m2"]), args["d2"]>>
        IN  /\ IsOk(ret)
            /\ ret.ok[1] = 10000 * t1[1] + 100 * t1[2] + t1[3]
            /\ (ret.ok[1] < ret.ok[2]) <=> C14_Precedes(t1, t2)
            /\ (ret.ok[1] = ret.ok[2]) <=> (t1 = t2)

\* day 99 of a month given by name against day 1 of the next month of the
\* same year: the first key is the smaller
C14_Witness ==
    /\ pc = "date_to_float"
    /\ IsPStr(args["m"]) /\ C14_Valid(args["m"]) /\ C14_Valid(args["m2"])
    /\ args["y"] = args["y2"]
    /\ C14_Month(args["m"]) + 1 = C14_Month(args["m2"])
    /\ args["d"] = 99 /\ args["d2"] = 1
    /\ IsOk(ret)
    /\ ret.ok[1] < ret.ok[2]


-----------------------------------------------------------------------------
(* filter_presentations without date bounds: the gates and the order.      *)

\* a presentation whose institution is resolved by no institution
C15_Unresolved(pres) ==
    /\ Has(pres, "institution")
    /\ fuzzy_retrieval(args.institutions, NameSources, pres["institution"], FALSE)
           = None

\* the position in the input of the presentation returned at position j
C15_InputPos(j) == CHOOSE n \in 1..Len(coll) : coll[n]["_id"] = ret.ok[j]["_id"]

\* the begin date of the one is later than that of the other
C15_Later(a, b) == DateLT(presdate(b).ok, presdate(a).ok)

\* the returned list is ordered by begin date, newest first, and
\* presentations of one date are in their input order
C15_NewestFirst ==
    \A i, j \in 1..Len(ret.ok) :
        i < j =>
            \/ C15_Later(coll[C15_InputPos(i)], coll[C15_InputPos(j)])
            \/ /\ presdate(coll[C15_InputPos(i)]) = presdate(coll[C15_InputPos(j)])
               /\ C15_InputPos(i) < C15_InputPos(j)

\* C15: filter_presentations called without date bounds, no surviving
\* presentation having an unresolved institution, returns exactly the
\* presentations that have the member among their resolved authors, a status
\* of statuses (or "all" in statuses) and a type of types (or "all" in
\* types), ordered by begin date, newest first, equal dates in input order.
C15_GatesAndOrder ==
    (/\ pc = "filter_presentations"
     /\ args.since = None
     /\ args.before = None
     /\ \A n \in 1..Len(coll) :
            C5_PassesGates(coll[n]) => ~C15_Unresolved(coll[n])) =>
        /\ IsOk(ret)
        /\ \A n \in 1..Len(coll) : C5_Returned(coll[n]) <=> C5_PassesGates(coll[n])
        /\ Len(ret.ok) = Cardinality({n \in 1..Len(coll) : C5_PassesGates(coll[n])})
        /\ C15_NewestFirst


-----------------------------------------------------------------------------
(* filter_presentations: the institution and the department of the         *)
(* presentations that survive the gates.                                    *)

\* the institution that fuzzy retrieval finds for the presentation
C16_Institution(pres) ==
    fuzzy_retrieval(args.institutions, NameSources, pres["institution"], FALSE)

\* the presentation passes the member, status and type gates and the date
\* gates that are applied
C16_Survives(pres) ==
    /\ C5_PassesGates(pres)
    /\ args.since # None => DateLT(args.since, presdate(pres).ok)
    /\ args.before # None => DateLT(presdate(pres).ok, args.before)

\* the department of the presentation is no department of its institution
C16_NoSuchDepartment(pres) ==
    /\ Has(pres, "institution")
    /\ Has(pres, "department")
    /\ C16_Institution(pres) # None
    /\ ~(/\ Has(C16_Institution(pres), "departments")
         /\ pres["department"] \in DOMAIN C16_Institution(pres)["departments"])

\* C16: when a presentation that survives the gates has an institution that
\* fuzzy retrieval does not resolve, filter_presentations exits the process
\* and returns no list; otherwise a surviving presentation whose institution
\* resolves and whose department is not one of that institution's stays in
\* the result with the department {"name": <the original department>}.
C16_ErrorPolicy ==
    pc = "filter_presentations" =>
        IF \E n \in 1..Len(coll) : C16_Survives(coll[n]) /\ C15_Unresolved(coll[n])
        THEN ret = Raise("SystemExit")
        ELSE \A n \in 1..Len(coll) :
                (C16_Survives(coll[n]) /\ C16_NoSuchDepartment(coll[n])) =>
                    /\ IsOk(ret)
                    /\ \E j \in 1..Len(ret.ok) :
                          /\ ret.ok[j]["_id"] = coll[n]["_id"]
                          /\ ret.ok[j]["department"] = [name |-> coll[n]["department"]]


-----------------------------------------------------------------------------
(* filter_service, filter_facilities, filter_activities: the grouping per  *)
(* person.                                                                  *)

\* the key of the nested records that the filter reads
C17_Key(fn) ==
    CASE fn = "filter_service" -> "service"
      [] fn = "filter_facilities" -> "facilities"
      [] fn = "filter_activities" -> "activities"

\* the effective end date of a nested record
C17_EndDate(i, today) ==
    Date(IF Has(i, "year") /\ i["year"] # 0 THEN i["year"]
         ELSE IF Has(i, "end_year") /\ i["end_year"] # 0 THEN i["end_year"]
         ELSE today.year,
         IF Has(i, "end_month") THEN i["end_month"] ELSE 12,
         IF Has(i, "end_day") THEN i["end_day"] ELSE 28)

\* the records of the person that have the type and end on or after
\* begin_period, in their input order
C17_Surviving(p, key, a) ==
    LET Survives(i) == /\ Has(i, "type")
                       /\ i["type"] = a.type
                       /\ DateLE(a.begin_period, C17_EndDate(i, a.today))
    IN  IF Has(p, key) THEN SelectSeq(p[key], Survives) ELSE <<>>

\* r is the record i with its month put in display form
C17_SameRecord(r, i) ==
    /\ DOMAIN r = DOMAIN i \cup {"month"}
    /\ \A k \in DOMAIN i \ {"month"} : r[k] = i[k]

\* the returned person q is the person p with the surviving records
C17_SamePerson(q, p, key, a) ==
    /\ q["_id"] = p["_id"]
    /\ Len(q[key]) = Len(C17_Surviving(p, key, a))
    /\ \A k \in 1..Len(q[key]) :
          C17_SameRecord(q[key][k], C17_Surviving(p, key, a)[k])

\* the call that has returned: every person with a surviving record is
\* returned once, with those records, and nobody else is returned
C17_PerPerson(ppl, r, key, a) ==
    /\ IsOk(r)
    /\ Len(r.ok) = Cardinality({n \in 1..Len(ppl) :
                                   C17_Surviving(ppl[n], key, a) # <<>>})
    /\ \A n \in 1..Len(ppl) :
          C17_Surviving(ppl[n], key, a) # <<>> =>
              \E j \in 1..Len(r.ok) : C17_SamePerson(r.ok[j], ppl[n], key, a)

\* C17: filter_service, filter_facilities and filter_activities return a
\* person, once, if and only if one of the person's nested records has the
\* requested type and an effective end date (year, else end_year, else the
\* current year; end_month, else 12; end_day, else 28) on or after
\* begin_period, and the nested list of a returned person holds exactly the
\* surviving records in their input order.
C17_GroupedPerPerson ==
    [][pc' \in {"filter_service", "filter_facilities", "filter_activities"} =>
          C17_PerPerson(people, ret', C17_Key(pc'), args')]_vars

\* a call of filter_service has returned one person of two, with a record
\* whose year is in the period and whose end_year is before it
C17_Witness ==
    /\ pc = "filter_service"
    /\ IsOk(ret)
    /\ Len(people) = 2
    /\ Len(ret.ok) = 1
    /\ \E k \in 1..Len(ret.ok[1]["service"]) :
          /\ Get(ret.ok[1]["service"][k], "year", 0) = MaxYear
          /\ Get(ret.ok[1]["service"][k], "end_year", 0) = MinYear


-----------------------------------------------------------------------------
(* A month that is not recognized.                                          *)

\* a str of digits
C18_Numeric(s) ==
    /\ s # <<>>
    /\ \A j \in 1..Len(s) : s[j] \in {"0", "1", "2", "3", "4", "5", "6", "7", "8", "9"}

\* the key k of the table is s in lower case
C18_IsLowerOf(k, s) ==
    /\ Len(k) = Len(s)
    /\ \A j \in 1..Len(s) :
          \/ k[j] = s[j] /\ s[j] \notin DOMAIN UpperToLower
          \/ s[j] \in DOMAIN UpperToLower /\ k[j] = UpperToLower[s[j]]

\* a str that is neither numeric nor, in lower case, a key of MONTHS
C18_Unrecognized(m) ==
    /\ IsPStr(m)
    /\ ~C18_Numeric(m.str)
    /\ \A p \in MONTHS : ~C18_IsLowerOf(p[1], m.str)

\* C18: month_to_int raises KeyError, and returns nothing, for every str
\* that is neither numeric nor a key of MONTHS after lower(); date_to_float
\* and begin_end_date called with such a month raise the same error instead
\* of returning a key or dates.
C18_UnrecognizedMonthRaises ==
    /\ (pc = "month_to_int" /\ C18_Unrecognized(args["m"])) =>
          ret = Raise("KeyError")
    /\ (/\ pc = "date_to_float"
        /\ C18_Unrecognized(args["m"]) \/ C18_Unrecognized(args["m2"])) =>
          ret = Raise("KeyError")
    /\ (/\ pc = "begin_end_date"
        /\ "m" \in DOMAIN args
        /\ \/ C18_Unrecognized(args["begin_month"])
           \/ C18_Unrecognized(args["end_month"])) =>
          ret = Raise("KeyError")

\* begin_end_date has raised KeyError for a begin month that is no month,
\* the end month being one
C18_Witness ==
    /\ pc = "begin_end_date"
    /\ "m" \in DOMAIN args
    /\ args["begin_month"] = PStr(S_poly)
    /\ args["end_month"] = PInt(12)
    /\ ret = Raise("KeyError")


-----------------------------------------------------------------------------
(* A filter call after earlier calls on the same people collection.        *)

\* what the call returns when it is made on the collection ppl
C19_Result(fn, ppl, a) ==
    CASE fn = "filter_service" ->
             filter_service(ppl, a.begin_period, a.type, a.today).ret
      [] fn = "filter_facilities" ->
             filter_facilities(ppl, a.begin_period, a.type, a.today).ret
      [] fn = "filter_activities" ->
             filter_activities(ppl, a.begin_period, a.type, a.today).ret
      [] fn = "filter_employment_for_advisees" ->
             filter_employment_for_advisees(ppl, a.begin_period, a.type, a.today).ret

\* C19: in any sequence of filter calls on one people collection, each call
\* returns what the same call returns when it is the first and only call
\* made on the collection as it was before the sequence.
C19_IndependentOfEarlierCalls ==
    [][pc' # "call" => ret' = C19_Result(pc', coll, args')]_vars


-----------------------------------------------------------------------------
(* filter_patents, filter_licenses: a target that resolves to no person.   *)

\* the person that fuzzy retrieval finds for the target, or None
C20_Person == fuzzy_retrieval(people, NameSources, args.target, FALSE)

\* the person is the resolution of one of the inventors of the document
C20_IsInventor(person, i) ==
    \E k \in 1..Len(i["inventors"]) :
        fuzzy_retrieval(people, NameSources, i["inventors"][k], FALSE) = person

\* C20: filter_patents and filter_licenses return a document only if the
\* target resolves to a person of the people collection and that person is
\* the resolution of one of the document's inventors; when the target
\* resolves to no person the list returned is empty.
C20_SentinelIsNoMatch ==
    (pc \in {"filter_patents", "filter_licenses"} /\ IsOk(ret)) =>
        /\ C20_Person = None => ret.ok = <<>>
        /\ \A j \in 1..Len(ret.ok) :
              /\ C20_Person # None
              /\ C20_IsInventor(C20_Person, ret.ok[j])


-----------------------------------------------------------------------------
(* The month of the records that survive a people filter.                  *)

\* the three-letter English abbreviation of month k: Jan, Feb, ..., Dec
C21_Abbreviation(k) == Capitalize(SubSeq(MonthNames[k], 1, 3))

\* the month that the record denotes: by its month, else by its
\* begin_month, else January
C21_Month(i) ==
    IF Has(i, "month") /\ i["month"] # None THEN month_to_int(i["month"]).ok
    ELSE IF Has(i, "begin_month") THEN month_to_int(i["begin_month"]).ok
    ELSE 1

\* the records got are the surviving records, each with the abbreviation of
\* its month in the month field
C21_Normalized(got, surviving) ==
    /\ Len(got) = Len(surviving)
    /\ \A k \in 1..Len(got) :
          got[k]["month"] = PStr(C21_Abbreviation(C21_Month(surviving[k])))

\* C21: after filter_service, filter_facilities or filter_activities the
\* month field of every surviving record is the three-letter English
\* abbreviation of the month denoted by its month field, or by its
\* begin_month when it has no month; a record with neither has "Jan".
C21_ThreeLetterMonth ==
    [][pc' \in {"filter_service", "filter_facilities", "filter_activities"} =>
          /\ IsOk(ret')
          /\ \A j \in 1..Len(ret'.ok) : \E n \in 1..Len(people) :
                /\ people[n]["_id"] = ret'.ok[j]["_id"]
                /\ C21_Normalized(ret'.ok[j][C17_Key(pc')],
                                  C17_Surviving(people[n], C17_Key(pc'), args'))]_vars


-----------------------------------------------------------------------------
(* merge_collections: several superior documents for one inferior one.     *)

\* the positions of the superior documents that carry a foreign key equal
\* to the _id of the inferior document at position n
C22_Matching(n) ==
    {m \in 1..Len(coll.b) : References(coll.b[m], coll.a[n])}

\* the last of those positions
C22_Last(n) == CHOOSE m \in C22_Matching(n) : \A x \in C22_Matching(n) : x <= m

\* C22: when several superior documents carry a foreign key equal to the
\* _id of one inferior document, the output of merge_collections holds
\* exactly one merged document for that inferior document, and its superior
\* layer is the matching superior document that is last in the superior
\* collection.
C22_LastSeenWins ==
    pc = "merge_collections" =>
        \A n \in 1..Len(coll.a) :
            Cardinality(C22_Matching(n)) >= 2 =>
                /\ Cardinality({j \in 1..Len(ret.ok) :
                                   ret.ok[j].inferior = coll.a[n]}) = 1
                /\ \A j \in 1..Len(ret.ok) :
                      ret.ok[j].inferior = coll.a[n] =>
                          ret.ok[j].superior = coll.b[C22_Last(n)]

=============================================================================
